---- MODULE Spec2Model ----
(***************************************************************************)
(* Argo backend: the unread/watermark tracker (services/unread_service.py),*)
(* the iMessage history importer (services/rag_imessage_import.py), the    *)
(* message vector index (services/rag_store.py) and the read-only message  *)
(* source (services/imessage_service.py); the discussion engine           *)
(* (services/discussions_service.py, services/rag_service.py) behind the   *)
(* discussion endpoints of app.py.                                         *)
(*                                                                         *)
(* Conventions                                                             *)
(*  - a text is a sequence of one-character strings; SQL NULL is carried   *)
(*    by the field has_text = FALSE;                                       *)
(*  - a contact id is the chat ROWID; str()/int() between the two forms is *)
(*    a bijection on the ids used and is left implicit;                    *)
(*  - a message ROWID is the position of the message in msgs (the source   *)
(*    is append-only and assigns increasing ROWIDs);                       *)
(*  - md5 is taken collision-free: a digest is modelled by its preimage;  *)
(*  - message.date is an unbounded integer in the program; here it is the  *)
(*    pair [giga, rem] standing for giga * 10^9 + rem, 0 <= rem < 10^9, so *)
(*    that nanosecond stamps stay within TLC's 32-bit integers;            *)
(*  - a chat text is carried by its lengths, [blanks, chars]: the count of *)
(*    blanks around it and the count of characters between them; a         *)
(*    discussion id is a small integer standing for the uuid4 string.      *)
(***************************************************************************)
EXTENDS Integers, Sequences, FiniteSets, Bags, TLC

VARIABLES
    msgs,         \* chat.db: message rows joined with their chat, by ROWID
    unreadRows,   \* table UnreadState: contact_id -> last_seen_message_id
    legacyJson,   \* data/unread_state.json: [present, state]
    backupExists, \* data/unread_state.json.backup exists
    rag,          \* Chroma collection "messages": id -> entry
    last,         \* the call that completed last, with its result
    prev,         \* the call before it, when an incremental import or a reset
    discussions,  \* table Discussion: id -> [title, tags]
    dmessages,    \* table Message: rows [discussion_id, role, text] in id order
    dindex,       \* Chroma collection "discussions": the bag of its entries
    uuids,        \* the discussion ids uuid4 has produced so far
    turn,         \* the chat turn in flight, or the one that ended in the last step
    cache,        \* app.ANALYSIS_CACHE: contact_id -> analysis result
    calls,        \* the get_unread calls in flight: thread -> [pc, state, seen]
    task          \* the periodic unread check: [pc, outcome, survived]

chatVars == <<discussions, dmessages, dindex, uuids, turn>>

vars == <<msgs, unreadRows, legacyJson, backupExists, rag, last, prev,
          discussions, dmessages, dindex, uuids, turn, cache, calls, task>>

----------------------------------------------------------------------------
(* Bounds of the model *)

MaxMsgs == 2
MaxRows == 3
MaxChunks == 2

(* Program constants *)

PrefixLen == 50
AppleEpoch == 978307200
DefaultBatchSize == 128
SyncBatchSize == 128
NoneTs == -1
NanoGiga == 1000
MaxMessageLength == 10000
DiscussionTopK == 5
HistoryTopK == 8

Chats == {1, 2}
MarkIds == 0 .. MaxMsgs
BatchSizes == {1, DefaultBatchSize}

\* the messages the external store may append: chat, direction, date, text
Row(c, me, d, nn, t) ==
    [chat |-> c, is_from_me |-> me, date |-> d, has_text |-> nn, text |-> t]

\* a date given in seconds, and one given in nanoseconds
Secs(n) == [giga |-> 0, rem |-> n]
Nanos(secs, n) == [giga |-> secs, rem |-> n]

\* the messages that arrive where the unread tracker is examined: both
\* directions, dates in and against ROWID order, a NULL text, a second chat
Arrivals ==
    { Row(1, 0, Secs(2), TRUE, <<"a">>),
      Row(1, 0, Secs(1), TRUE, <<"a">>),
      Row(1, 1, Secs(1), TRUE, <<"a">>),
      Row(1, 0, Secs(1), FALSE, <<>>),
      Row(2, 0, Nanos(2000, 7), TRUE, <<"a">>) }

\* the messages that arrive where the importer is examined: texts with and
\* without surrounding blanks, a blank text, a NULL text, a second chat
TextArrivals ==
    { Row(1, 0, Secs(1), TRUE, <<"a">>),
      Row(1, 0, Secs(2), TRUE, <<" ", "a">>),
      Row(1, 1, Secs(1), TRUE, <<" ">>),
      Row(1, 0, Secs(1), FALSE, <<>>),
      Row(2, 0, Nanos(2000, 7), TRUE, <<"a">>) }

\* the discussion ids uuid4 may produce
DiscIds == {1, 2}

\* a chat text of the given lengths
Text(blanks, chars) == [blanks |-> blanks, chars |-> chars]

\* the message fields of the chat requests: absent or empty, blank, of the
\* longest accepted length with a blank around it, too long
UserMessages ==
    { Text(0, 0), Text(1, 0), Text(1, MaxMessageLength),
      Text(0, MaxMessageLength + 1) }

\* the contents of one streamed delta: "" or one character
ChunkLens == {0, 1}

\* the replies of a blocking completion
Replies == {Text(0, 1)}

\* the titles and tag lists a discussion is started with
Titles == {<<"t">>}
TagLists == {<< <<"x">>, <<"y">> >>}

\* the outputs of the completion provider for an analysis
Answers == {1, 2}

\* the provider call of an analysis that fails, if any
AnalysisFaults == {"none", "embed", "completion"}

\* what a failing call raises: the endpoint tells ValueError from the rest
ErrorKinds == {"ValueError", "Exception"}

EmptyState == [c \in {} |-> 0]

NoLegacyJson == [present |-> FALSE, state |-> EmptyState]

----------------------------------------------------------------------------
(* Pure helpers *)

Max(a, b) == IF a >= b THEN a ELSE b
Min(a, b) == IF a <= b THEN a ELSE b

SetMax(S) == CHOOSE x \in S : \A y \in S : y <= x

IsSpace(ch) == ch = " "

RECURSIVE LStrip(_)
LStrip(t) == IF t # <<>> /\ IsSpace(Head(t)) THEN LStrip(Tail(t)) ELSE t

RECURSIVE RStrip(_)
RStrip(t) ==
    IF t # <<>> /\ IsSpace(t[Len(t)]) THEN RStrip(SubSeq(t, 1, Len(t) - 1)) ELSE t

\* str.strip()
Strip(t) == RStrip(LStrip(t))

\* text[:n]
Prefix(t, n) == SubSeq(t, 1, Min(n, Len(t)))

\* imessage_service.apple_to_iso: seconds (or nanoseconds) since 2001 to the
\* second-resolution UTC timestamp, carried as its count of seconds since 1970
apple_to_iso(apple_time) ==
    IF apple_time.giga = 0 /\ apple_time.rem = 0 THEN NoneTs
    ELSE IF apple_time.giga > NanoGiga \/ (apple_time.giga = NanoGiga /\ apple_time.rem > 0)
         THEN apple_time.giga + AppleEpoch
         ELSE apple_time.giga * 10^9 + apple_time.rem + AppleEpoch

\* the order of two dates as integers
DateLess(a, b) == a.giga < b.giga \/ (a.giga = b.giga /\ a.rem < b.rem)
DateLeq(a, b) == a = b \/ DateLess(a, b)

\* rag_imessage_import.normalize_msg
normalize_msg(contact_id, ts, direction, text) ==
    [ts |-> ts, who |-> IF direction = "out" THEN "OUT" ELSE "IN", text |-> Strip(text)]

\* an id hashed over the whole text
create_message_id_of_whole_text(contact_id, msg_timestamp, text) ==
    [contact_id |-> contact_id,
     ts |-> msg_timestamp,
     content_hash |-> <<contact_id, msg_timestamp, text>>]

\* rag_imessage_import._create_message_id; md5 is taken to have no collision
create_message_id(contact_id, msg_timestamp, text) ==
    [contact_id |-> contact_id,
     ts |-> msg_timestamp,
     content_hash |-> <<contact_id, msg_timestamp, Prefix(text, PrefixLen)>>]

----------------------------------------------------------------------------
(* The message source as the reader sees it.  avail is whether chat.db is
   there when the call connects (imessage_service.connect). *)

RowIds == 1 .. Len(msgs)

\* rows of chat c that satisfy  m.text IS NOT NULL
TextRows(c) == {i \in RowIds : msgs[i].chat = c /\ msgs[i].has_text}

\* imessage_service.list_contacts(limit=None), as a set: [] when chat.db is missing
list_contacts(avail) ==
    IF avail THEN {c \in Chats : TextRows(c) # {}} ELSE {}

\* the orders in which list_contacts may return the set S of contacts
Orders(S) ==
    {o \in [1 .. Cardinality(S) -> S] : \A i, j \in DOMAIN o : i # j => o[i] # o[j]}

\* SELECT MAX(m.ROWID) ... WHERE cmj.chat_id = ? AND m.text IS NOT NULL
MaxRowId(c) == SetMax(TextRows(c))

\* ORDER BY m.date ASC over the rows S (rows of one date in ROWID order)
RECURSIVE OrderByDateAsc(_)
OrderByDateAsc(S) ==
    IF S = {} THEN <<>>
    ELSE LET first == CHOOSE i \in S : \A j \in S :
                          \/ DateLess(msgs[i].date, msgs[j].date)
                          \/ msgs[i].date = msgs[j].date /\ i <= j
         IN <<first>> \o OrderByDateAsc(S \ {first})

----------------------------------------------------------------------------
(* rag_store: the collection "messages" *)

EmptyIndex == [i \in {} |-> 0]

UniqueIds(batch) ==
    \A i, j \in DOMAIN batch : i # j => batch[i].id # batch[j].id

\* rag_store.add_messages of one batch whose ids are pairwise distinct: an id
\* the collection already holds keeps its entry
add_messages(index, batch) ==
    LET ids == {batch[i].id : i \in DOMAIN batch}
        entry(id) == LET k == CHOOSE i \in DOMAIN batch : batch[i].id = id
                     IN [doc |-> batch[k].doc,
                         direction |-> batch[k].direction,
                         rowid |-> batch[k].rowid]
    IN [id \in DOMAIN index \cup ids |->
           IF id \in DOMAIN index THEN index[id] ELSE entry(id)]

\* rag_store.get_existing_message_ids (the collection is read without error)
get_existing_message_ids(index) == DOMAIN index

BatchCount(docs, size) == (Len(docs) + size - 1) \div size

BatchOf(docs, size, k) ==
    SubSeq(docs, (k - 1) * size + 1, Min(k * size, Len(docs)))

\* batch k is embedded and added: it is not among the failing batches, and
\* Chroma accepts its ids (no id twice in one add)
BatchOk(docs, size, k, failing) ==
    k \notin failing /\ UniqueIds(BatchOf(docs, size, k))

\* the loop left at the first batch that fails
RECURSIVE add_batches_until_failure(_, _, _, _, _)
add_batches_until_failure(index, docs, size, k, failing) ==
    IF k > BatchCount(docs, size) \/ ~BatchOk(docs, size, k, failing) THEN index
    ELSE add_batches_until_failure(add_messages(index, BatchOf(docs, size, k)),
                                   docs, size, k + 1, failing)

\* for i in range(0, len(docs), batch_size): try: embed; add  except: continue
RECURSIVE add_batches(_, _, _, _, _)
add_batches(index, docs, size, k, failing) ==
    IF k > BatchCount(docs, size) THEN index
    ELSE add_batches(IF BatchOk(docs, size, k, failing)
                     THEN add_messages(index, BatchOf(docs, size, k))
                     ELSE index,
                     docs, size, k + 1, failing)

AllBatchesOk(docs, size, failing) ==
    \A k \in 1 .. BatchCount(docs, size) : BatchOk(docs, size, k, failing)

\* what a run's batches were: the ids each one carried and whether it went in
Batches(docs, size, failing) ==
    [k \in 1 .. BatchCount(docs, size) |->
        [ids |-> {BatchOf(docs, size, k)[i].id : i \in 1 .. Len(BatchOf(docs, size, k))},
         ok |-> BatchOk(docs, size, k, failing)]]

----------------------------------------------------------------------------
NoRun == [op |-> "none"]

\* the analysis cache of a process that has just started
EmptyCache == [c \in {} |-> 0]

\* the threads that serve requests and run the periodic check
Threads == {1, 2}

\* no call in flight
Idle == [pc |-> "idle", state |-> EmptyState, seen |-> EmptyState]
NoCalls == [t \in Threads |-> Idle]

\* the periodic check as startup_event creates it
NoTask == [pc |-> "sleeping", outcome |-> "none", survived |-> FALSE]

\* no chat turn yet
NoTurn ==
    [pc |-> "idle", variant |-> "stream", d |-> 0, raw |-> Text(0, 0), msg |-> Text(0, 0),
     full_reply |-> 0, chunks |-> 0, events |-> <<>>, steps |-> <<>>,
     embeds |-> 0, completions |-> 0, ctx |-> {}, hist |-> 0, exit |-> "none"]

\* the relational store and the collection "discussions" as init_db and
\* get_or_create_collection leave them on a fresh installation, and the
\* analysis cache of the process
NoChat ==
    /\ discussions = [d \in {} |-> 0]
    /\ dmessages = <<>>
    /\ dindex = EmptyBag
    /\ uuids = {}
    /\ turn = NoTurn
    /\ cache = EmptyCache
    /\ calls = NoCalls
    /\ task = NoTask

Init ==
    /\ msgs = <<>>
    /\ unreadRows = EmptyState
    /\ legacyJson \in {NoLegacyJson, [present |-> TRUE, state |-> [c \in {1} |-> 1]]}
    /\ backupExists = FALSE
    /\ rag = EmptyIndex
    /\ last = [op |-> "init"]
    /\ prev = NoRun
    /\ NoChat

InitImport ==
    /\ msgs = <<>>
    /\ unreadRows = EmptyState
    /\ legacyJson = NoLegacyJson
    /\ backupExists = FALSE
    /\ rag = EmptyIndex
    /\ last = [op |-> "init"]
    /\ prev = NoRun
    /\ NoChat

\* every call is recorded; of the call before it, a reset or a restart is
\* kept as it was, and an incremental importer run that read the source is
\* kept with whether all its batches went in
Record(call) ==
    /\ last' = call
    /\ prev' = IF last.op \in {"reset", "restart"} THEN last
               ELSE IF last.op = "import" /\ last.incremental /\ last.avail
               THEN [op |-> "import", clean |-> last.clean]
               ELSE NoRun

----------------------------------------------------------------------------
(* Environment: the external message store appends a message *)

Arrive(menu) ==
    /\ Len(msgs) < MaxMsgs
    /\ \E m \in menu : msgs' = Append(msgs, m)
    /\ Record([op |-> "new_message"])
    /\ UNCHANGED <<unreadRows, legacyJson, backupExists, rag, chatVars, cache, calls, task>>

NewMessage == Arrive(Arrivals)

NewTextMessage == Arrive(TextArrivals)

----------------------------------------------------------------------------
(* unread_service.mark_contact_as_read *)

\* the row is overwritten whatever it holds
mark_without_compare(state, contact_id, message_id) ==
    [c \in DOMAIN state \cup {contact_id} |->
        IF c = contact_id THEN message_id ELSE state[c]]

mark_contact_as_read(state, contact_id, message_id) ==
    IF contact_id \in DOMAIN state
    THEN IF message_id >= state[contact_id]
         THEN [state EXCEPT ![contact_id] = message_id]
         ELSE state
    ELSE [c \in DOMAIN state \cup {contact_id} |->
             IF c = contact_id THEN message_id ELSE state[c]]

\* the last call was get_unread and it returned message m for contact c
Reported(c, m) ==
    /\ last.op = "get_unread"
    /\ \E k \in DOMAIN last.ret :
          last.ret[k].contact_id = c /\ last.ret[k].message_id = m

MarkAsRead ==
    /\ \E c \in Chats, m \in MarkIds :
          /\ unreadRows' = mark_contact_as_read(unreadRows, c, m)
          /\ Record([op |-> "mark_as_read", contact_id |-> c, message_id |-> m,
                     reported |-> Reported(c, m)])
    /\ UNCHANGED <<msgs, legacyJson, backupExists, rag, chatVars, cache, calls, task>>

----------------------------------------------------------------------------
(* unread_service: the watermark store *)

\* _save_unread_state: insert or update one row per contact of state
save_unread_state(rows, state) ==
    [c \in DOMAIN rows \cup DOMAIN state |->
        IF c \in DOMAIN state THEN state[c] ELSE rows[c]]

\* _migrate_from_json_if_exists returns True
migrates(rows) ==
    legacyJson.present /\ legacyJson.state # EmptyState /\ rows = EmptyState

\* the rows after _migrate_from_json_if_exists: what _load_unread_state returns
migrate_from_json(rows) ==
    IF migrates(rows) THEN save_unread_state(rows, legacyJson.state) ELSE rows

\* the legacy file is renamed to the backup unless a backup is there already
MigrateFiles ==
    /\ legacyJson' = IF migrates(unreadRows) /\ ~backupExists
                     THEN NoLegacyJson
                     ELSE legacyJson
    /\ backupExists' = (backupExists \/ migrates(unreadRows))

\* every contact starts at 0 instead of its latest message
initialize_state_at_zero(avail) == [c \in list_contacts(avail) |-> 0]

\* _initialize_state_with_current_messages: the state it builds and returns
initialize_state(avail) == [c \in list_contacts(avail) |-> MaxRowId(c)]

\* ... and the rows it leaves: it saves only a non-empty state
initialize_rows(rows, avail) ==
    IF initialize_state(avail) # EmptyState
    THEN save_unread_state(rows, initialize_state(avail))
    ELSE rows

----------------------------------------------------------------------------
(* unread_service.get_unread_messages *)

\* the query without  m.is_from_me = 0
UnreadCandidatesAnyDirection(c, last_seen_id) ==
    {i \in TextRows(c) : i > last_seen_id}

\* WHERE cmj.chat_id = ? AND m.text IS NOT NULL AND m.is_from_me = 0 AND m.ROWID > ?
UnreadCandidates(c, last_seen_id) ==
    {i \in TextRows(c) : msgs[i].is_from_me = 0 /\ i > last_seen_id}

\* ORDER BY m.date DESC LIMIT 1: the rows the query may return (any row of the
\* latest date)
LatestByDate(S) == {i \in S : \A j \in S : DateLeq(msgs[j].date, msgs[i].date)}

\* the row each contact's query returns, 0 when it returns none
PickChoices(state) ==
    {p \in [Chats -> 0 .. Len(msgs)] :
        \A c \in Chats :
            IF c \in DOMAIN state /\ UnreadCandidates(c, state[c]) # {}
            THEN p[c] \in LatestByDate(UnreadCandidates(c, state[c]))
            ELSE p[c] = 0}

UnreadRecord(c, i) ==
    [contact_id |-> c, message_id |-> i, timestamp |-> apple_to_iso(msgs[i].date)]

\* the loop, but a reported message also becomes the contact's watermark
RECURSIVE scan_contacts_advancing(_, _, _, _)
scan_contacts_advancing(order, k, state, pick) ==
    IF k > Len(order) THEN [state |-> state, unread |-> <<>>]
    ELSE LET c == order[k] IN
         IF c \notin DOMAIN state
         THEN scan_contacts_advancing(order, k + 1,
                  save_unread_state(state, [x \in {c} |-> MaxRowId(c)]), pick)
         ELSE IF UnreadCandidates(c, state[c]) # {}
              THEN LET rest == scan_contacts_advancing(order, k + 1,
                                   [state EXCEPT ![c] = pick[c]], pick)
                   IN [state |-> rest.state,
                       unread |-> <<UnreadRecord(c, pick[c])>> \o rest.unread]
              ELSE scan_contacts_advancing(order, k + 1, state, pick)

\* the loop over the contacts: lazy initialisation of a contact without a
\* row, else the latest unread incoming message
RECURSIVE scan_contacts(_, _, _, _)
scan_contacts(order, k, state, pick) ==
    IF k > Len(order) THEN [state |-> state, unread |-> <<>>]
    ELSE LET c == order[k] IN
         IF c \notin DOMAIN state
         THEN scan_contacts(order, k + 1,
                            save_unread_state(state, [x \in {c} |-> MaxRowId(c)]), pick)
         ELSE LET rest == scan_contacts(order, k + 1, state, pick) IN
              IF UnreadCandidates(c, state[c]) # {}
              THEN [state |-> rest.state,
                    unread |-> <<UnreadRecord(c, pick[c])>> \o rest.unread]
              ELSE rest

RECURSIVE InsertDesc(_, _)
InsertDesc(sorted, r) ==
    IF sorted = <<>> THEN <<r>>
    ELSE IF Head(sorted).timestamp >= r.timestamp
         THEN <<Head(sorted)>> \o InsertDesc(Tail(sorted), r)
         ELSE <<r>> \o sorted

\* the list as the scan of the contacts left it
KeepScanOrder(s) == s

\* unread_messages.sort(key=timestamp, reverse=True): stable
RECURSIVE SortByTimestampDesc(_)
SortByTimestampDesc(s) ==
    IF s = <<>> THEN <<>>
    ELSE InsertDesc(SortByTimestampDesc(SubSeq(s, 1, Len(s) - 1)), s[Len(s)])

----------------------------------------------------------------------------
(* unread_service.sync_new_messages_to_rag *)

Direction(i) == IF msgs[i].is_from_me = 1 THEN "out" ELSE "in"

\* the id the sync computes for row i: from the text as stored
SyncId(c, i) == create_message_id(c, apple_to_iso(msgs[i].date), msgs[i].text)

\* the sync query restricted to incoming messages, as the unread query is
SyncDocsOfIncoming(c, last_seen_id, existing_ids) ==
    LET results == OrderByDateAsc(UnreadCandidates(c, last_seen_id))
        IsNew(i) == SyncId(c, i) \notin existing_ids
        new == SelectSeq(results, IsNew)
    IN [k \in 1 .. Len(new) |->
           [id |-> SyncId(c, new[k]),
            doc |-> normalize_msg(c, apple_to_iso(msgs[new[k]].date),
                                  Direction(new[k]), msgs[new[k]].text),
            direction |-> Direction(new[k]),
            rowid |-> new[k]]]

SyncDocsOf(c, last_seen_id, existing_ids) ==
    LET results == OrderByDateAsc({i \in TextRows(c) : i > last_seen_id})
        IsNew(i) == SyncId(c, i) \notin existing_ids
        new == SelectSeq(results, IsNew)
    IN [k \in 1 .. Len(new) |->
           [id |-> SyncId(c, new[k]),
            doc |-> normalize_msg(c, apple_to_iso(msgs[new[k]].date),
                                  Direction(new[k]), msgs[new[k]].text),
            direction |-> Direction(new[k]),
            rowid |-> new[k]]]

RECURSIVE sync_docs(_, _, _, _)
sync_docs(order, k, state, existing_ids) ==
    IF k > Len(order) THEN <<>>
    ELSE (IF order[k] \in DOMAIN state
          THEN SyncDocsOf(order[k], state[order[k]], existing_ids)
          ELSE <<>>) \o sync_docs(order, k + 1, state, existing_ids)

\* the index after the sync
sync_new_messages_to_rag(index, state, order, failing) ==
    IF state = EmptyState THEN index
    ELSE add_batches(index,
                     sync_docs(order, 1, state, get_existing_message_ids(index)),
                     SyncBatchSize, 1, failing)

\* unread_service.get_unread_messages, whoever calls it
get_unread_messages ==
    /\ MigrateFiles
    /\ UNCHANGED <<msgs, chatVars, cache, calls>>
    /\ \E avail \in BOOLEAN :
         LET loaded == migrate_from_json(unreadRows) IN
         IF ~avail
         THEN /\ unreadRows' = loaded
              /\ rag' = rag
              /\ Record([op |-> "get_unread", avail |-> avail, ret |-> <<>>,
                          sync_called |-> FALSE])
         ELSE IF loaded = EmptyState
         THEN /\ unreadRows' = initialize_rows(loaded, avail)
              /\ rag' = rag
              /\ Record([op |-> "get_unread", avail |-> avail, ret |-> <<>>,
                          sync_called |-> FALSE])
         ELSE \E order \in Orders(list_contacts(avail)), pick \in PickChoices(loaded) :
                LET r == scan_contacts(order, 1, loaded, pick)
                    docs == sync_docs(order, 1, r.state, get_existing_message_ids(rag))
                IN \E failing \in SUBSET (1 .. BatchCount(docs, SyncBatchSize)) :
                     /\ unreadRows' = r.state
                     /\ rag' = sync_new_messages_to_rag(rag, r.state, order, failing)
                     /\ Record([op |-> "get_unread", avail |-> avail,
                                 ret |-> SortByTimestampDesc(r.unread),
                                 sync_called |-> TRUE,
                                 sync_clean |-> AllBatchesOk(docs, SyncBatchSize, failing)])

\* GET /unread and GET /unread/count
GetUnread == get_unread_messages /\ UNCHANGED task

----------------------------------------------------------------------------
(* app.check_unread_messages_periodically: while True: try: sleep;
   get_unread_messages  except Exception: log *)

\* await asyncio.sleep(check_interval) is over
TickSleep ==
    /\ task.pc = "sleeping"
    /\ task' = [task EXCEPT !.pc = "due"]
    /\ UNCHANGED <<msgs, unreadRows, legacyJson, backupExists, rag, last, prev,
                   chatVars, cache, calls>>

\* get_unread_messages() returns, or raises: a failure of the watermark
\* store is raised again by _save_unread_state and by nothing caught
TickCheck ==
    /\ task.pc = "due"
    /\ \/ /\ get_unread_messages
          /\ task' = [pc |-> "sleeping", outcome |-> "returned",
                      survived |-> task.survived]
       \/ /\ task' = [pc |-> "caught", outcome |-> "raised",
                      survived |-> task.survived]
          /\ UNCHANGED <<msgs, unreadRows, legacyJson, backupExists, rag, last, prev,
                         chatVars, cache, calls>>

\* the exception ends the task
TickCaughtStops ==
    /\ task.pc = "caught"
    /\ task' = [task EXCEPT !.pc = "stopped"]
    /\ UNCHANGED <<msgs, unreadRows, legacyJson, backupExists, rag, last, prev,
                   chatVars, cache, calls>>

\* except Exception as e: logger.error(...); the loop goes round
TickCaught ==
    /\ task.pc = "caught"
    /\ task' = [pc |-> "sleeping", outcome |-> "raised", survived |-> TRUE]
    /\ UNCHANGED <<msgs, unreadRows, legacyJson, backupExists, rag, last, prev,
                   chatVars, cache, calls>>

----------------------------------------------------------------------------
(* unread_service.get_unread_messages on an empty watermark store, one
   database statement at a time, as two threads may interleave it *)

\* session.get of each contact of the state: the rows found
lookup_unread_state(rows, state) ==
    [c \in DOMAIN state \cap DOMAIN rows |-> rows[c]]

\* session.commit inserts a row for a contact that was not found: it fails
\* when the row has appeared since
commit_conflicts(rows, state, seen) ==
    (DOMAIN state \ DOMAIN seen) \cap DOMAIN rows # {}

\* session.commit: a row not found is inserted, a row found is updated when
\* its value is to change
commit_unread_state(rows, state, seen) ==
    [c \in DOMAIN rows \cup DOMAIN state |->
        IF c \notin DOMAIN state THEN rows[c]
        ELSE IF c \in DOMAIN seen /\ seen[c] = state[c] THEN rows[c]
        ELSE state[c]]

UnreadCall(t, avail, raised) ==
    [op |-> "get_unread", avail |-> avail, ret |-> <<>>, sync_called |-> FALSE,
     thread |-> t, raised |-> raised]

\* connect, _load_unread_state finds no row, the source is read; the call
\* returns at once when the source is missing or lists no contact
GetUnreadLoad ==
    /\ \E t \in Threads, avail \in BOOLEAN :
         /\ calls[t].pc = "idle"
         /\ unreadRows = EmptyState
         /\ IF initialize_state(avail) = EmptyState
            THEN /\ Record(UnreadCall(t, avail, "none"))
                 /\ UNCHANGED calls
            ELSE /\ calls' = [calls EXCEPT ![t] =
                                [pc |-> "lookup", state |-> initialize_state(avail),
                                 seen |-> EmptyState]]
                 /\ UNCHANGED <<last, prev>>
    /\ UNCHANGED <<msgs, unreadRows, legacyJson, backupExists, rag, chatVars, cache, task>>

\* _save_unread_state: existing = session.get(UnreadState, contact_id)
GetUnreadLookup ==
    /\ \E t \in Threads :
         /\ calls[t].pc = "lookup"
         /\ calls' = [calls EXCEPT ![t] =
                        [pc |-> "commit", state |-> calls[t].state,
                         seen |-> lookup_unread_state(unreadRows, calls[t].state)]]
    /\ UNCHANGED <<msgs, unreadRows, legacyJson, backupExists, rag, last, prev,
                   chatVars, cache, task>>

\* _save_unread_state: session.commit(); its failure is logged and raised
\* again, and get_unread_messages does not catch it
GetUnreadCommit ==
    /\ \E t \in Threads :
         /\ calls[t].pc = "commit"
         /\ calls' = [calls EXCEPT ![t] = Idle]
         /\ IF commit_conflicts(unreadRows, calls[t].state, calls[t].seen)
            THEN /\ unreadRows' = unreadRows
                 /\ Record(UnreadCall(t, TRUE, "IntegrityError"))
            ELSE /\ unreadRows' = commit_unread_state(unreadRows, calls[t].state,
                                                      calls[t].seen)
                 /\ Record(UnreadCall(t, TRUE, "none"))
    /\ UNCHANGED <<msgs, legacyJson, backupExists, rag, chatVars, cache, task>>

----------------------------------------------------------------------------
(* unread_service.reset_unread_state *)

\* the rows are not deleted before the re-initialisation
reset_without_clear(rows, avail) == initialize_rows(rows, avail)

\* the rows after reset_unread_state
reset_unread_state(rows, avail) == initialize_rows(EmptyState, avail)

Reset ==
    /\ \E avail \in BOOLEAN :
          /\ unreadRows' = reset_unread_state(unreadRows, avail)
          /\ Record([op |-> "reset", avail |-> avail, ret |-> initialize_state(avail)])
    /\ UNCHANGED <<msgs, legacyJson, backupExists, rag, chatVars, cache, calls, task>>

----------------------------------------------------------------------------
(* rag_imessage_import.import_imessage_history_from_db *)

\* an id numbered after the documents indexed so far: not stable across runs
ImportIdByCount(c, i) ==
    create_message_id(c, Cardinality(DOMAIN rag) + i, Strip(msgs[i].text))

\* the id the importer computes for row i: from the stripped text
ImportId(c, i) ==
    create_message_id(c, apple_to_iso(msgs[i].date), Strip(msgs[i].text))

\* imessage_service.get_conversation: every row of the chat, NULL text as ""
ImportDocsOf(c, existing_ids, incremental) ==
    LET convo == OrderByDateAsc({i \in RowIds : msgs[i].chat = c})
        Keep(i) == /\ Strip(msgs[i].text) # <<>>
                   /\ ~(incremental /\ ImportId(c, i) \in existing_ids)
        new == SelectSeq(convo, Keep)
    IN [k \in 1 .. Len(new) |->
           [id |-> ImportId(c, new[k]),
            doc |-> normalize_msg(c, apple_to_iso(msgs[new[k]].date),
                                  Direction(new[k]), Strip(msgs[new[k]].text)),
            direction |-> Direction(new[k]),
            rowid |-> new[k]]]

RECURSIVE import_docs(_, _, _, _)
import_docs(order, k, existing_ids, incremental) ==
    IF k > Len(order) THEN <<>>
    ELSE ImportDocsOf(order[k], existing_ids, incremental)
             \o import_docs(order, k + 1, existing_ids, incremental)

\* what a function without a return statement hands back
None == "None"

\* existing_ids = set(); if incremental: existing_ids = get_existing_message_ids()
import_existing_ids(index, incremental) ==
    IF incremental THEN get_existing_message_ids(index) ELSE {}

\* the record kept of one run of the importer: of the startup import only
\* that it ran, and the contact marked in the call before it, if any
ImportCall(op, incremental, avail, clean, inserted) ==
    IF op = "restart"
    THEN [op |-> op,
          marked |-> IF last.op = "mark_as_read" THEN last.contact_id ELSE 0]
    ELSE IF op = "clear_and_reimport"
    THEN [op |-> op, incremental |-> incremental, avail |-> avail,
          clean |-> clean, inserted |-> inserted, returned |-> None,
          deleted_count |-> Cardinality(DOMAIN rag)]
    ELSE [op |-> op, incremental |-> incremental, avail |-> avail,
          clean |-> clean, inserted |-> inserted, returned |-> None]

\* the record of a run followed batch by batch: what its batches were
TracedCall(op, incremental, avail, clean, batches) ==
    [op |-> op, incremental |-> incremental, avail |-> avail,
     clean |-> clean, batches |-> batches]

\* one run of the importer
ImportRun(index, op, incremental, batch_size) ==
    \E avail \in BOOLEAN :
      \E order \in Orders(list_contacts(avail)) :
        LET docs == import_docs(order, 1, import_existing_ids(index, incremental),
                                incremental)
        IN \E failing \in SUBSET (1 .. BatchCount(docs, batch_size)) :
             /\ rag' = add_batches(index, docs, batch_size, 1, failing)
             /\ Record(ImportCall(op, incremental, avail,
                                  AllBatchesOk(docs, batch_size, failing),
                                  Cardinality(DOMAIN rag' \ DOMAIN index)))

\* the same run, followed batch by batch
ImportRunTraced(index, op, incremental, batch_size) ==
    \E avail \in BOOLEAN :
      \E order \in Orders(list_contacts(avail)) :
        LET docs == import_docs(order, 1, import_existing_ids(index, incremental),
                                incremental)
        IN \E failing \in SUBSET (1 .. BatchCount(docs, batch_size)) :
             /\ rag' = add_batches(index, docs, batch_size, 1, failing)
             /\ Record(TracedCall(op, incremental, avail,
                                  AllBatchesOk(docs, batch_size, failing),
                                  Batches(docs, batch_size, failing)))

ImportStep(index, op, incremental) ==
    \E batch_size \in BatchSizes : ImportRun(index, op, incremental, batch_size)

ImportHistory ==
    /\ \E incremental \in BOOLEAN : ImportStep(rag, "import", incremental)
    /\ UNCHANGED <<msgs, unreadRows, legacyJson, backupExists, chatVars, cache, calls, task>>

\* the same runs, followed batch by batch
ImportHistoryTraced ==
    /\ \E incremental \in BOOLEAN, batch_size \in BatchSizes :
         ImportRunTraced(rag, "import", incremental, batch_size)
    /\ UNCHANGED <<msgs, unreadRows, legacyJson, backupExists, chatVars, cache, calls, task>>

\* the collection left as it is
keep_all_messages(index) == index

\* rag_store.clear_all_messages
clear_all_messages(index) == EmptyIndex

\* a rebuild that empties the whole vector store, the collection
\* "discussions" included
ClearStoreAndReimport ==
    /\ ImportStep(clear_all_messages(rag), "clear_and_reimport", FALSE)
    /\ dindex' = EmptyBag
    /\ UNCHANGED <<discussions, dmessages, uuids, turn>>
    /\ UNCHANGED <<msgs, unreadRows, legacyJson, backupExists, cache, calls, task>>

\* rag_imessage_import.clear_and_reimport
ClearAndReimport ==
    /\ ImportStep(clear_all_messages(rag), "clear_and_reimport", FALSE)
    /\ UNCHANGED <<msgs, unreadRows, legacyJson, backupExists, chatVars, cache, calls, task>>

----------------------------------------------------------------------------
(* app.startup_event: what a restart of the process runs *)

\* rag_store.has_indexed_messages
has_indexed_messages(index) == DOMAIN index # {}

\* the watermark rows held in process memory only
rows_lost_on_restart(rows) == EmptyState

\* the watermark rows a restarted process finds
rows_after_restart(rows) == rows

\* the process is stopped and started again: the startup import runs
\* (incremental when the index holds documents, full otherwise); the call
\* before the restart is remembered when it was a mark_as_read
Restart ==
    /\ ImportRun(rag, "restart", has_indexed_messages(rag), DefaultBatchSize)
    /\ unreadRows' = rows_after_restart(unreadRows)
    /\ cache' = EmptyCache
    /\ UNCHANGED <<msgs, legacyJson, backupExists, chatVars, calls, task>>

----------------------------------------------------------------------------
(* discussions_service: the discussions and their stored messages *)

\* a message field taken as it comes
KeepText(t) == t

\* str.strip() and len() on a chat text
StripText(t) == Text(0, t.chars)
TextLen(t) == t.blanks + t.chars

\* ",".join(tags)
RECURSIVE JoinTags(_)
JoinTags(tags) ==
    IF tags = <<>> THEN <<>>
    ELSE IF Len(tags) = 1 THEN tags[1]
    ELSE tags[1] \o <<",">> \o JoinTags(Tail(tags))

\* tags_str.split(",")
RECURSIVE SplitTags(_, _)
SplitTags(str, cur) ==
    IF str = <<>> THEN <<cur>>
    ELSE IF Head(str) = "," THEN <<cur>> \o SplitTags(Tail(str), <<>>)
    ELSE SplitTags(Tail(str), Append(cur, Head(str)))

\* the rows of table Message
MessageRow(discussion_id, role, text) ==
    [discussion_id |-> discussion_id, role |-> role, text |-> text]

\* a delete that leaves the message rows where they are
AllMessages(rows, id) == rows

\* the rows of one discussion, and the rows of the others, in id order
MessagesOf(rows, id) == SelectSeq(rows, LAMBDA r : r.discussion_id = id)
MessagesNotOf(rows, id) == SelectSeq(rows, LAMBDA r : r.discussion_id # id)

\* discussions_service.get_discussion
get_discussion(table, rows, id) ==
    IF id \notin DOMAIN table
    THEN [title |-> <<>>, tags |-> <<>>, messages |-> <<>>]
    ELSE [title |-> table[id].title,
          tags |-> IF table[id].tags # <<>> THEN SplitTags(table[id].tags, <<>>) ELSE <<>>,
          messages |-> MessagesOf(rows, id)]

\* no turn is between its first and its last step
NoTurnInFlight == turn.pc \notin {"open", "streaming"}

\* another call completes: a turn in flight goes on, an ended one is history
TurnAfterCall == IF NoTurnInFlight THEN NoTurn ELSE turn

\* uuid.uuid4(): an id never produced before
NewIds == DiscIds \ uuids

\* discussions_service.start_discussion
StartDiscussion ==
    \E id \in NewIds, title \in Titles, tags \in TagLists :
        /\ uuids' = uuids \cup {id}
        /\ discussions' = [d \in DOMAIN discussions \cup {id} |->
                              IF d = id THEN [title |-> title, tags |-> JoinTags(tags)]
                              ELSE discussions[d]]
        /\ Record([op |-> "start", id |-> id])
        /\ turn' = TurnAfterCall
        /\ UNCHANGED <<dmessages, dindex>>
        /\ UNCHANGED <<msgs, unreadRows, legacyJson, backupExists, rag, cache, calls, task>>

----------------------------------------------------------------------------
(* rag_service: the collection "discussions" *)

IndexEntry(discussion_id, role, text) ==
    [discussion |-> discussion_id, role |-> role, doc |-> text]

\* rag_service.add_to_rag, when the embedding and the add succeed: one more
\* entry, under an id of its own (the id ends in 6 random bytes)
add_to_rag(index, discussion_id, role, text) ==
    index (+) SetToBag({IndexEntry(discussion_id, role, text)})

\* the entries that satisfy  where = {"discussion": discussion_id}
IndexEntriesOf(index, discussion_id) ==
    {e \in BagToSet(index) : e.discussion = discussion_id}

\* rag_service.delete_from_rag: failed is whether collection.delete raised
delete_from_rag(index, discussion_id, failed) ==
    IF failed THEN index
    ELSE [e \in BagToSet(index) \ IndexEntriesOf(index, discussion_id) |-> index[e]]

\* collection.query(n_results = top_k): the bags of entries that can be the
\* top_k nearest ones, whatever the embeddings are
NearestSets(index, top_k) ==
    {S \in SubBag(index) : BagCardinality(S) = Min(top_k, BagCardinality(index))}

\* the entries the query may look at: rag_service.query_rag passes no filter
Queried(index, discussion_id) == index

\* rag_service.query_rag
query_rag(index, discussion_id, top_k) ==
    NearestSets(Queried(index, discussion_id), top_k)

----------------------------------------------------------------------------
(* discussions_service.delete_discussion *)

\* a delete that lets the failure of the index cleanup reach its caller
DeleteDiscussionStrict ==
    \E id \in DOMAIN discussions, failed \in BOOLEAN :
        /\ dmessages' = MessagesNotOf(dmessages, id)
        /\ discussions' = [d \in DOMAIN discussions \ {id} |-> discussions[d]]
        /\ dindex' = delete_from_rag(dindex, id, failed)
        /\ Record([op |-> "delete", id |-> id,
                   raised |-> IF failed THEN "Exception" ELSE "none",
                   deleted |-> Len(MessagesOf(dmessages, id))])
        /\ turn' = TurnAfterCall
        /\ UNCHANGED uuids
        /\ UNCHANGED <<msgs, unreadRows, legacyJson, backupExists, rag, cache, calls, task>>

DeleteDiscussion ==
    \E id \in DiscIds, failed \in BOOLEAN :
        /\ IF id \notin DOMAIN discussions
           THEN /\ Record([op |-> "delete", id |-> id, raised |-> "ValueError"])
                /\ UNCHANGED <<discussions, dmessages, dindex>>
           ELSE /\ dmessages' = MessagesNotOf(dmessages, id)
                /\ discussions' = [d \in DOMAIN discussions \ {id} |-> discussions[d]]
                /\ dindex' = delete_from_rag(dindex, id, failed)
                /\ Record([op |-> "delete", id |-> id, raised |-> "none",
                           deleted |-> Len(MessagesOf(dmessages, id))])
        /\ turn' = TurnAfterCall
        /\ UNCHANGED uuids
        /\ UNCHANGED <<msgs, unreadRows, legacyJson, backupExists, rag, cache, calls, task>>

----------------------------------------------------------------------------
(* discussions_service.chat_in_discussion and chat_in_discussion_stream *)

\* a chat turn ends: it is the call that completed last, and turn has its result
TurnEnds == Record([op |-> "chat"])

\* the faults of a turn before the completion: none, the indexing of the
\* user turn raises, the query of the discussion context raises
EarlyFaults == {"none", "index_user", "query_rag"}

\* the number of chat history documents the turn gets: query_chat_history
\* and the try around it turn a failure into no document
chat_history_hits(index, failed) ==
    IF failed THEN 0 ELSE Min(HistoryTopK, Cardinality(DOMAIN index))

\* the discussion ids on the entries of a query result
DiscussionsIn(S) == {e.discussion : e \in BagToSet(S)}

\* a turn that commits the user turn before it looks the discussion up
begin_turn_unchecked(d, m, fault, kind, S, hist_failed) ==
    [raised |-> IF d \in DOMAIN discussions THEN "none" ELSE "ValueError",
     messages |-> Append(dmessages, MessageRow(d, "user", m)),
     index |-> dindex, steps |-> <<>>, embeds |-> 0, ctx |-> {}, hist |-> 0]

\* a turn that leaves the commit of the user turn to the end of the call
begin_turn_uncommitted(d, m, fault, kind, S, hist_failed) ==
    [raised |-> IF d \notin DOMAIN discussions THEN "ValueError"
                ELSE IF fault \in {"index_user", "query_rag"} THEN kind
                ELSE "none",
     messages |-> dmessages, index |-> dindex,
     steps |-> <<"user_committed", "user_indexed", "context_retrieved">>,
     embeds |-> 3, ctx |-> {}, hist |-> 0]

\* lines 81-115 and 166-200, common to both variants: the discussion is
\* looked up, the user turn committed and indexed, both contexts retrieved.
\* fault and kind say which call raises and what; S is the query result.
begin_turn(d, m, fault, kind, S, hist_failed) ==
    LET rows == Append(dmessages, MessageRow(d, "user", m))
        index == add_to_rag(dindex, d, "user", m)
    IN IF d \notin DOMAIN discussions
       THEN [raised |-> "ValueError", messages |-> dmessages, index |-> dindex,
             steps |-> <<>>, embeds |-> 0, ctx |-> {}, hist |-> 0]
       ELSE IF fault = "index_user"
       THEN [raised |-> kind, messages |-> rows, index |-> dindex,
             steps |-> <<"user_committed">>, embeds |-> 1, ctx |-> {}, hist |-> 0]
       ELSE IF fault = "query_rag"
       THEN [raised |-> kind, messages |-> rows, index |-> index,
             steps |-> <<"user_committed", "user_indexed">>, embeds |-> 2,
             ctx |-> {}, hist |-> 0]
       ELSE [raised |-> "none", messages |-> rows, index |-> index,
             steps |-> <<"user_committed", "user_indexed", "context_retrieved">>,
             embeds |-> 3, ctx |-> DiscussionsIn(S),
             hist |-> chat_history_hits(rag, hist_failed)]

\* the query results begin_turn may get, when it gets as far as the query
TurnQueries(d, m, fault) ==
    IF d \in DOMAIN discussions /\ fault \notin {"index_user", "query_rag"}
    THEN query_rag(add_to_rag(dindex, d, "user", m), d, DiscussionTopK)
    ELSE {EmptyBag}

\* the turn can be taken within the bound on the stored rows
RoomForTurn == Len(dmessages) + 2 <= MaxRows

\* the message fields the endpoint accepts, as the service gets them
ChatTexts ==
    {StripText(t) : t \in {u \in UserMessages :
                              /\ TextLen(StripText(u)) > 0
                              /\ TextLen(StripText(u)) <= MaxMessageLength}}

\* the faults of the blocking variant after the contexts: the completion
\* raises, the indexing of the assistant turn raises
LateFaults == {"completion", "index_assistant"}

\* the blocking turn as it ends: what it raised, the steps it reached, the
\* calls it made, the contexts it got, the reply it returns
ChatCall(d, m, raised, steps, embeds, completions, ctx, hist, reply) ==
    [NoTurn EXCEPT !.pc = "closed", !.variant = "blocking", !.d = d, !.raw = m,
                   !.msg = m, !.exit = raised, !.steps = steps, !.embeds = embeds,
                   !.completions = completions, !.ctx = ctx, !.hist = hist,
                   !.full_reply = TextLen(reply)]

\* discussions_service.chat_in_discussion
ChatInDiscussion ==
    \E d \in DiscIds, m \in ChatTexts, fault \in EarlyFaults \cup LateFaults,
       hist_failed \in BOOLEAN, reply \in Replies :
      \E S \in TurnQueries(d, m, fault) :
        LET kind == "Exception"
            b == begin_turn(d, m, fault, kind, S, hist_failed)
            answered == Append(b.messages, MessageRow(d, "assistant", reply))
        IN /\ NoTurnInFlight
           /\ RoomForTurn
           /\ IF b.raised # "none"
              THEN /\ dmessages' = b.messages
                   /\ dindex' = b.index
                   /\ turn' = ChatCall(d, m, b.raised, b.steps, b.embeds, 0,
                                       b.ctx, b.hist, Text(0, 0))
              ELSE IF fault = "completion"
              THEN /\ dmessages' = b.messages
                   /\ dindex' = b.index
                   /\ turn' = ChatCall(d, m, kind,
                                       Append(b.steps, "completion_requested"),
                                       b.embeds, 1, b.ctx, b.hist, Text(0, 0))
              ELSE IF fault = "index_assistant"
              THEN /\ dmessages' = answered
                   /\ dindex' = b.index
                   /\ turn' = ChatCall(d, m, kind,
                                       b.steps \o <<"completion_requested",
                                                    "assistant_committed">>,
                                       b.embeds + 1, 1, b.ctx, b.hist, reply)
              ELSE /\ dmessages' = answered
                   /\ dindex' = add_to_rag(b.index, d, "assistant", reply)
                   /\ turn' = ChatCall(d, m, "none",
                                       b.steps \o <<"completion_requested",
                                                    "assistant_committed",
                                                    "assistant_indexed">>,
                                       b.embeds + 1, 1, b.ctx, b.hist, reply)
           /\ TurnEnds
           /\ UNCHANGED <<discussions, uuids>>
           /\ UNCHANGED <<msgs, unreadRows, legacyJson, backupExists, rag, cache, calls, task>>

----------------------------------------------------------------------------
(* app.chat_discussion: the streaming endpoint and its event stream *)

\* what generate() emits when the service generator raises
ErrorEvents(kind) ==
    IF kind = "ValueError" THEN <<"error_validation">>
    ELSE <<"error_server", "done">>

\* the endpoint validates the message field; a valid request starts the
\* response, whose first event is the heartbeat
ChatRequest ==
    \E d \in DiscIds, raw \in UserMessages :
        LET user_message == StripText(raw)
        IN /\ NoTurnInFlight
           /\ RoomForTurn
           /\ turn' = IF \/ TextLen(user_message) = 0
                         \/ TextLen(user_message) > MaxMessageLength
                      THEN [NoTurn EXCEPT !.pc = "rejected", !.d = d, !.raw = raw]
                      ELSE [NoTurn EXCEPT !.pc = "open", !.d = d, !.raw = raw,
                                          !.msg = user_message,
                                          !.events = <<"heartbeat">>]
           /\ IF turn'.pc = "rejected" THEN TurnEnds ELSE UNCHANGED <<last, prev>>
           /\ UNCHANGED <<discussions, dmessages, dindex, uuids>>
           /\ UNCHANGED <<msgs, unreadRows, legacyJson, backupExists, rag, cache, calls, task>>

\* chat_in_discussion_stream up to the request of the completion stream
StreamBegin ==
    \E fault \in EarlyFaults, kind \in ErrorKinds, hist_failed \in BOOLEAN :
      \E S \in TurnQueries(turn.d, turn.msg, fault) :
        LET b == begin_turn(turn.d, turn.msg, fault, kind, S, hist_failed)
        IN /\ turn.pc = "open"
           /\ dmessages' = b.messages
           /\ dindex' = b.index
           /\ turn' = IF b.raised # "none"
                      THEN [turn EXCEPT !.pc = "closed", !.exit = "raised",
                                        !.steps = b.steps, !.embeds = b.embeds,
                                        !.events = @ \o ErrorEvents(b.raised)]
                      ELSE [turn EXCEPT !.pc = "streaming",
                                        !.steps = Append(b.steps, "completion_requested"),
                                        !.embeds = b.embeds, !.completions = 1,
                                        !.ctx = b.ctx, !.hist = b.hist]
           /\ IF b.raised # "none" THEN TurnEnds ELSE UNCHANGED <<last, prev>>
           /\ UNCHANGED <<discussions, uuids>>
           /\ UNCHANGED <<msgs, unreadRows, legacyJson, backupExists, rag, cache, calls, task>>

\* one delta of the completion stream: full_reply = full_text; yield
StreamChunk ==
    \E n \in ChunkLens :
        /\ turn.pc = "streaming"
        /\ turn.chunks < MaxChunks
        /\ turn' = [turn EXCEPT !.full_reply = @ + n, !.chunks = @ + 1,
                                !.events = Append(@, "data")]
        /\ UNCHANGED <<discussions, dmessages, dindex, uuids>>
        /\ UNCHANGED <<msgs, unreadRows, legacyJson, backupExists, rag, last, prev, cache, calls, task>>

\* a finally block that saves nothing
saves_no_reply(full_reply) == FALSE

\* a finally block that saves whatever it has, the empty reply included
saves_any_reply(full_reply) == TRUE

\* whether the finally block saves the reply: if full_reply
saves_reply(full_reply) == full_reply > 0

\* the finally block of chat_in_discussion_stream: the assistant turn is
\* committed and indexed; a failure of the indexing is logged
SaveReply(exit, events, index_failed) ==
    LET reply == Text(0, turn.full_reply)
    IN /\ TurnEnds
       /\ IF saves_reply(turn.full_reply)
          THEN /\ dmessages' = Append(dmessages, MessageRow(turn.d, "assistant", reply))
               /\ dindex' = IF index_failed THEN dindex
                            ELSE add_to_rag(dindex, turn.d, "assistant", reply)
               /\ turn' = [turn EXCEPT
                             !.pc = "closed", !.exit = exit, !.embeds = @ + 1,
                             !.events = @ \o events,
                             !.steps = @ \o (IF index_failed THEN <<"assistant_committed">>
                                             ELSE <<"assistant_committed",
                                                    "assistant_indexed">>)]
          ELSE /\ turn' = [turn EXCEPT !.pc = "closed", !.exit = exit,
                                       !.events = @ \o events]
               /\ UNCHANGED <<dmessages, dindex>>

\* the completion stream ends: the reply is saved and done is emitted
StreamEnd ==
    \E index_failed \in BOOLEAN :
        /\ turn.pc = "streaming"
        /\ SaveReply("normal", <<"done">>, index_failed)
        /\ UNCHANGED <<discussions, uuids>>
        /\ UNCHANGED <<msgs, unreadRows, legacyJson, backupExists, rag, cache, calls, task>>

\* the completion stream raises, at its request or between two deltas
StreamFail ==
    \E kind \in ErrorKinds, index_failed \in BOOLEAN :
        /\ turn.pc = "streaming"
        /\ SaveReply("raised", ErrorEvents(kind), index_failed)
        /\ UNCHANGED <<discussions, uuids>>
        /\ UNCHANGED <<msgs, unreadRows, legacyJson, backupExists, rag, cache, calls, task>>

\* a consumer that stops reading, were the reply not saved on the way out
StreamDisconnectUnsaved ==
    /\ turn.pc \in {"open", "streaming"}
    /\ turn' = [turn EXCEPT !.pc = "closed", !.exit = "disconnected"]
    /\ TurnEnds
    /\ UNCHANGED <<discussions, dmessages, dindex, uuids>>
    /\ UNCHANGED <<msgs, unreadRows, legacyJson, backupExists, rag, cache, calls, task>>

\* the consumer stops reading: the generators are closed where they are
\* suspended, after the heartbeat or after a delta
StreamDisconnect ==
    \E index_failed \in BOOLEAN :
        /\ \/ /\ turn.pc = "open"
              /\ turn' = [turn EXCEPT !.pc = "closed", !.exit = "disconnected"]
              /\ TurnEnds
              /\ UNCHANGED <<dmessages, dindex>>
           \/ /\ turn.pc = "streaming"
              /\ turn.chunks >= 1
              /\ SaveReply("disconnected", <<>>, index_failed)
        /\ UNCHANGED <<discussions, uuids>>
        /\ UNCHANGED <<msgs, unreadRows, legacyJson, backupExists, rag, cache, calls, task>>

----------------------------------------------------------------------------
(* app.contact_analyze and the analysis cache *)

\* get_conversation(chat_id)["messages"]: every row of the chat
Conversation(c) == {i \in RowIds : msgs[i].chat = c}

\* a cache that is never consulted
cache_never_hit(entries, contact_id, force_refresh) == FALSE

\* if not force_refresh and contact_id in ANALYSIS_CACHE
cache_hit(entries, contact_id, force_refresh) ==
    ~force_refresh /\ contact_id \in DOMAIN entries

\* ANALYSIS_CACHE[contact_id] = result
cache_put(entries, contact_id, result) ==
    [c \in DOMAIN entries \cup {contact_id} |->
        IF c = contact_id THEN result ELSE entries[c]]

AnalyzeCall(contact_id, force_refresh, avail, status, ret, embeds, completions) ==
    [op |-> "analyze", contact_id |-> contact_id, force_refresh |-> force_refresh,
     avail |-> avail, status |-> status, ret |-> ret, embeds |-> embeds,
     completions |-> completions]

\* POST /contacts/{contact_id}/analyze
Analyze ==
    \E c \in Chats, force_refresh \in BOOLEAN, avail \in BOOLEAN,
       fault \in AnalysisFaults, answer \in Answers :
        LET result == [contact_id |-> c, answer |-> answer]
        IN /\ IF ~avail
              THEN /\ Record(AnalyzeCall(c, force_refresh, avail, 503, 0, 0, 0))
                   /\ UNCHANGED cache
              ELSE IF Conversation(c) = {}
              THEN /\ Record(AnalyzeCall(c, force_refresh, avail, 404, 0, 0, 0))
                   /\ UNCHANGED cache
              ELSE IF cache_hit(cache, c, force_refresh)
              THEN /\ Record(AnalyzeCall(c, force_refresh, avail, 200, cache[c], 0, 0))
                   /\ UNCHANGED cache
              ELSE IF fault # "none"
              THEN /\ Record(AnalyzeCall(c, force_refresh, avail, 500, 0, 1,
                                         IF fault = "completion" THEN 1 ELSE 0))
                   /\ UNCHANGED cache
              ELSE /\ Record(AnalyzeCall(c, force_refresh, avail, 200, result, 1, 1))
                   /\ cache' = cache_put(cache, c, result)
           /\ UNCHANGED <<msgs, unreadRows, legacyJson, backupExists, rag, chatVars, calls, task>>

\* POST /admin/clear_analysis_cache
ClearAnalysisCache ==
    /\ cache' = EmptyCache
    /\ Record([op |-> "clear_cache", count |-> Cardinality(DOMAIN cache)])
    /\ UNCHANGED <<msgs, unreadRows, legacyJson, backupExists, rag, chatVars, calls, task>>

\* POST /admin/sync_imessage_rag: import_new_messages, then the cache is cleared
SyncImessageRag ==
    /\ ImportRun(rag, "sync", TRUE, DefaultBatchSize)
    /\ cache' = EmptyCache
    /\ UNCHANGED <<msgs, unreadRows, legacyJson, backupExists, chatVars, calls, task>>

\* POST /admin/rebuild_imessage_rag: clear_and_reimport
RebuildImessageRag ==
    /\ ImportRun(clear_all_messages(rag), "rebuild", FALSE, DefaultBatchSize)
    /\ UNCHANGED <<msgs, unreadRows, legacyJson, backupExists, chatVars, cache, calls, task>>

----------------------------------------------------------------------------
(* imessage_service: the two operations of the reader, as the endpoints
   GET /contacts and GET /contacts/{chat_id} call them *)

\* what list_contacts hands back: the threads, [] when chat.db is missing
ListOutcome(avail) == [raised |-> "none", threads |-> list_contacts(avail)]

\* what get_conversation hands back: FileNotFoundError when chat.db is
\* missing, else the rows of the chat and whether the chat row was found
FetchOutcome(avail, chat_id) ==
    IF ~avail
    THEN [raised |-> "FileNotFoundError", found |-> FALSE, messages |-> <<>>]
    ELSE [raised |-> "none", found |-> Conversation(chat_id) # {},
          messages |-> OrderByDateAsc(Conversation(chat_id))]

ContactsList ==
    /\ \E avail \in BOOLEAN :
         Record([op |-> "list_contacts", avail |-> avail, out |-> ListOutcome(avail)])
    /\ UNCHANGED <<msgs, unreadRows, legacyJson, backupExists, rag, chatVars, cache, calls, task>>

ContactDetail ==
    /\ \E avail \in BOOLEAN, chat_id \in Chats :
         Record([op |-> "get_conversation", avail |-> avail, chat_id |-> chat_id,
                 out |-> FetchOutcome(avail, chat_id)])
    /\ UNCHANGED <<msgs, unreadRows, legacyJson, backupExists, rag, chatVars, cache, calls, task>>

----------------------------------------------------------------------------
(* The unread tracker under arriving messages *)
Next ==
    \/ NewMessage
    \/ MarkAsRead
    \/ GetUnread
    \/ Reset

Spec == Init /\ [][Next]_vars

(* The importer and the unread-triggered sync under arriving messages *)
NextImport ==
    \/ NewTextMessage
    \/ GetUnread
    \/ ImportHistory
    \/ ClearAndReimport

SpecImport == InitImport /\ [][NextImport]_vars

(* The importer and the unread tracker next to the discussion engine: the
   stores each of them writes *)
\* the stores as an earlier run of the process left them: discussion 1 with
\* one stored turn, its two rows and its two index entries
InitFrame ==
    /\ msgs = <<>>
    /\ unreadRows = EmptyState
    /\ legacyJson = NoLegacyJson
    /\ backupExists = FALSE
    /\ rag = EmptyIndex
    /\ last = [op |-> "init"]
    /\ prev = NoRun
    /\ discussions = [d \in {1} |-> [title |-> <<"t">>, tags |-> <<>>]]
    /\ dmessages = <<MessageRow(1, "user", Text(0, 1)),
                     MessageRow(1, "assistant", Text(0, 1))>>
    /\ dindex = add_to_rag(add_to_rag(EmptyBag, 1, "user", Text(0, 1)),
                           1, "assistant", Text(0, 1))
    /\ uuids = {1}
    /\ turn = NoTurn
    /\ cache = EmptyCache
    /\ calls = NoCalls
    /\ task = NoTask

NextFrame ==
    \/ NewTextMessage
    \/ GetUnread
    \/ ImportHistory
    \/ ClearAndReimport

SpecFrame == InitFrame /\ [][NextFrame]_vars

(* The batch loops of the importer and of the sync, followed batch by batch *)
NextBatch ==
    \/ NewTextMessage
    \/ GetUnread
    \/ ImportHistoryTraced

SpecBatch == InitImport /\ [][NextBatch]_vars

(* The unread tracker across restarts of the process *)
NextRestart ==
    \/ NewMessage
    \/ MarkAsRead
    \/ GetUnread
    \/ Restart

SpecRestart == InitImport /\ [][NextRestart]_vars

(* The analysis cache under arriving messages and the three sync paths *)
NextAnalyze ==
    \/ NewTextMessage
    \/ Analyze
    \/ ClearAnalysisCache
    \/ SyncImessageRag
    \/ RebuildImessageRag
    \/ GetUnread

SpecAnalyze == InitImport /\ [][NextAnalyze]_vars

(* discussions_service: the prompt of a chat turn.  A text is carried as the
   runs of characters it is made of: each run is characters from..to of a
   named text (a retrieved context, the user message, a literal) *)

MAX_CONTEXT_LENGTH == 8000
MAX_DISCUSSION_CONTEXT_LENGTH == 3000
MAX_CHAT_HISTORY_CONTEXT_LENGTH == 5000

\* len of the literals of the prompt: "...", "=== Discussion Context ===\n",
\* "=== Chat History Context (from iMessage) ===\n", "\n\n", "\n\nUser: "
LiteralLen(name) ==
    CASE name = "ellipsis" -> 3
      [] name = "discussion_header" -> 27
      [] name = "history_header" -> 45
      [] name = "separator" -> 2
      [] name = "user_label" -> 8

\* the text src, n characters long
Whole(src, n) == IF n = 0 THEN <<>> ELSE <<[src |-> src, from |-> 1, to |-> n]>>

Literal(name) == Whole(name, LiteralLen(name))

\* len(text)
RECURSIVE TextLength(_)
TextLength(text) ==
    IF text = <<>> THEN 0
    ELSE (Head(text).to - Head(text).from + 1) + TextLength(Tail(text))

\* text[-n:] for 0 < n
RECURSIVE LastChars(_, _)
LastChars(text, n) ==
    IF text = <<>> THEN <<>>
    ELSE LET r == text[Len(text)]
             rest == SubSeq(text, 1, Len(text) - 1)
         IN IF r.to - r.from + 1 >= n
            THEN <<[src |-> r.src, from |-> r.to - n + 1, to |-> r.to]>>
            ELSE LastChars(rest, n - (r.to - r.from + 1)) \o <<r>>

\* text[:n]
FirstChars(text, n) ==
    IF text = <<>> \/ n <= 0 THEN <<>>
    ELSE <<[src |-> Head(text).src, from |-> Head(text).from,
            to |-> Min(Head(text).to, Head(text).from + n - 1)]>>

\* a truncation that keeps the head of the text
truncate_keeping_head(text, max_length) ==
    IF TextLength(text) <= max_length THEN text
    ELSE FirstChars(text, max_length - 3) \o Literal("ellipsis")

\* discussions_service._truncate_context
truncate_context(text, max_length) ==
    IF TextLength(text) <= max_length THEN text
    ELSE Literal("ellipsis") \o LastChars(text, max_length - 3)

\* "\n\n".join(context_parts)
join_parts(parts) ==
    IF Len(parts) = 0 THEN <<>>
    ELSE IF Len(parts) = 1 THEN parts[1]
    ELSE parts[1] \o Literal("separator") \o parts[2]

\* the combined block without the final check
combine_unchecked(parts) == join_parts(parts)

\* combined_context, after the final safety check
combine(parts) ==
    IF TextLength(join_parts(parts)) > MAX_CONTEXT_LENGTH
    THEN truncate_context(join_parts(parts), MAX_CONTEXT_LENGTH)
    ELSE join_parts(parts)

\* the prompt chat_in_discussion and chat_in_discussion_stream assemble
build_prompt(discussion_context, chat_history_context, user_message) ==
    LET truncated_discussion ==
            truncate_context(discussion_context, MAX_DISCUSSION_CONTEXT_LENGTH)
        truncated_history ==
            truncate_context(chat_history_context, MAX_CHAT_HISTORY_CONTEXT_LENGTH)
        context_parts ==
            (IF discussion_context # <<>>
             THEN <<Literal("discussion_header") \o truncated_discussion>> ELSE <<>>)
            \o (IF chat_history_context # <<>>
                THEN <<Literal("history_header") \o truncated_history>> ELSE <<>>)
        combined_context == combine(context_parts)
    IN [truncated_discussion |-> truncated_discussion,
        truncated_history |-> truncated_history,
        combined_context |-> combined_context,
        user_content |-> IF combined_context # <<>>
                         THEN combined_context \o Literal("user_label") \o user_message
                         ELSE user_message]

\* len of the contexts the two retrievals may return, and of the message
ContextLengths == {0, 1, 2999, 3000, 3001, 4000, 5000, 5001, 9000}
MessageLengths == {1, MaxMessageLength}

InitPrompt ==
    /\ msgs = <<>>
    /\ unreadRows = EmptyState
    /\ legacyJson = NoLegacyJson
    /\ backupExists = FALSE
    /\ rag = EmptyIndex
    /\ last \in [op : {"contexts"}, discussion : ContextLengths,
                  history : ContextLengths, message : MessageLengths]
    /\ prev = NoRun
    /\ NoChat

\* the turn's prompt is assembled from what the retrievals returned
BuildPrompt ==
    /\ last.op = "contexts"
    /\ last' = [op |-> "prompt", discussion |-> last.discussion,
                history |-> last.history, message |-> last.message,
                out |-> build_prompt(Whole("discussion", last.discussion),
                                     Whole("history", last.history),
                                     Whole("user", last.message))]
    /\ UNCHANGED <<msgs, unreadRows, legacyJson, backupExists, rag, prev, chatVars,
                   cache, calls, task>>

NextPrompt == BuildPrompt

SpecPrompt == InitPrompt /\ [][NextPrompt]_vars

(* start_discussion, then get_discussion and list_discussions, for the
   titles and tag lists a request may carry *)

TagStrings == {<<>>, <<"x">>, <<"y">>, <<"x", ",", "y">>}
TagInputs ==
    {<<>>} \cup {<<a>> : a \in TagStrings}
           \cup {<<a, b>> : a \in TagStrings, b \in TagStrings}
TitleInputs == {<<>>, <<"t">>, <<"t", ",", "u">>}

InitTags ==
    /\ msgs = <<>>
    /\ unreadRows = EmptyState
    /\ legacyJson = NoLegacyJson
    /\ backupExists = FALSE
    /\ rag = EmptyIndex
    /\ last \in [op : {"request"}, title : TitleInputs, tags : TagInputs]
    /\ prev = NoRun
    /\ NoChat

\* list_discussions
list_discussions(table) ==
    {[id |-> d, title |-> table[d].title,
      tags |-> IF table[d].tags # <<>> THEN SplitTags(table[d].tags, <<>>) ELSE <<>>]
        : d \in DOMAIN table}

\* POST /discussions/start with the title and the tags of the request
StartRequested ==
    /\ last.op = "request"
    /\ \E id \in NewIds :
         /\ uuids' = uuids \cup {id}
         /\ discussions' = [d \in DOMAIN discussions \cup {id} |->
                               IF d = id THEN [title |-> last.title,
                                               tags |-> JoinTags(last.tags)]
                               ELSE discussions[d]]
         /\ last' = [op |-> "start", id |-> id, title |-> last.title,
                     tags |-> last.tags]
    /\ UNCHANGED <<msgs, unreadRows, legacyJson, backupExists, rag, prev, dmessages,
                   dindex, turn, cache, calls, task>>

NextTags == StartRequested

SpecTags == InitTags /\ [][NextTags]_vars

(* _create_message_id applied to two messages *)

\* n times the character ch
Pad(n, ch) == [i \in 1 .. n |-> ch]

\* texts shorter than the prefix, as long as it, and longer: alike up to the
\* prefix length or not
IdTexts ==
    { <<>>, <<"a">>, <<"b">>,
      Pad(PrefixLen, "a"),
      Pad(PrefixLen, "a") \o <<"a">>,
      Pad(PrefixLen, "a") \o <<"b">>,
      Pad(PrefixLen - 1, "a") \o <<"b">>,
      Pad(PrefixLen - 1, "a") \o <<"b", "a">> }

IdStamps == {NoneTs, apple_to_iso(Secs(1)), apple_to_iso(Secs(2))}

IdInputs == [contact_id : Chats, ts : IdStamps, text : IdTexts]

InitId ==
    /\ msgs = <<>>
    /\ unreadRows = EmptyState
    /\ legacyJson = NoLegacyJson
    /\ backupExists = FALSE
    /\ rag = EmptyIndex
    /\ last \in [op : {"messages"}, a : IdInputs, b : IdInputs]
    /\ prev = NoRun
    /\ NoChat

\* the id of each message is computed, the first one twice
ComputeIds ==
    /\ last.op = "messages"
    /\ last' = [op |-> "ids", a |-> last.a, b |-> last.b,
                id_a |-> create_message_id(last.a.contact_id, last.a.ts, last.a.text),
                id_a_again |-> create_message_id(last.a.contact_id, last.a.ts, last.a.text),
                id_b |-> create_message_id(last.b.contact_id, last.b.ts, last.b.text)]
    /\ UNCHANGED <<msgs, unreadRows, legacyJson, backupExists, rag, prev, chatVars,
                   cache, calls, task>>

NextId == ComputeIds

SpecId == InitId /\ [][NextId]_vars

(* The periodic unread check under arriving messages.  The event loop
   resumes the task when its sleep is over, and get_unread_messages comes
   back *)
NextTick ==
    \/ NewMessage
    \/ TickSleep
    \/ TickCheck
    \/ TickCaught

SpecTick ==
    /\ InitImport
    /\ [][NextTick]_vars
    /\ WF_vars(TickSleep) /\ WF_vars(TickCheck) /\ WF_vars(TickCaught)

(* The periodic check as the only writer of the message index, under
   arriving messages.  The task keeps ticking, and again and
   again a tick finds the source readable and has every batch embedded and
   inserted *)

\* a tick in which get_unread_messages returns, the source is read and no
\* batch of the sync fails
TickAllGoesWell ==
    /\ TickCheck
    /\ task'.outcome = "returned"
    /\ last'.avail
    /\ last'.sync_called => last'.sync_clean

NextSync ==
    \/ NewMessage
    \/ TickSleep
    \/ TickCheck
    \/ TickCaught

SpecSync ==
    /\ InitImport
    /\ [][NextSync]_vars
    /\ WF_vars(TickSleep) /\ WF_vars(TickCheck) /\ WF_vars(TickCaught)
    /\ SF_vars(TickAllGoesWell)

(* Two threads in get_unread on an empty store, and mark_as_read *)
NextRace ==
    \/ NewMessage
    \/ MarkAsRead
    \/ GetUnreadLoad
    \/ GetUnreadLookup
    \/ GetUnreadCommit

SpecRace == InitImport /\ [][NextRace]_vars

(* The reader under arriving messages *)
NextReader ==
    \/ NewTextMessage
    \/ ContactsList
    \/ ContactDetail

SpecReader == InitImport /\ [][NextReader]_vars

(* The discussion engine: one message of the source is in the message index *)
InitChat ==
    /\ msgs = <<Row(1, 0, Secs(1), TRUE, <<"a">>)>>
    /\ unreadRows = EmptyState
    /\ legacyJson = NoLegacyJson
    /\ backupExists = FALSE
    /\ rag = add_batches(EmptyIndex, import_docs(<<1>>, 1, {}, FALSE),
                         DefaultBatchSize, 1, {})
    /\ last = [op |-> "init"]
    /\ prev = NoRun
    /\ NoChat

NextChat ==
    \/ StartDiscussion
    \/ DeleteDiscussion
    \/ ChatInDiscussion
    \/ ChatRequest
    \/ StreamBegin
    \/ StreamChunk
    \/ StreamEnd
    \/ StreamFail
    \/ StreamDisconnect

SpecChat == InitChat /\ [][NextChat]_vars

----------------------------------------------------------------------------
(* Claims on the importer and the sync *)

\* the last two calls were incremental importer runs, one right after the
\* other, and both read the source
TwoIncrementalRuns ==
    /\ last.op = "import" /\ last.incremental /\ last.avail
    /\ prev.op = "import"

EntriesOf(i) == {id \in DOMAIN rag : rag[id].rowid = i}

\* C2: whatever the order of importer runs and unread-triggered syncs, the
\* index holds at most one entry for each source message
C2_AtMostOneEntryPerMessage ==
    \A i \in RowIds : Cardinality(EntriesOf(i)) <= 1

----------------------------------------------------------------------------
(* Claims on the unread tracker *)

\* the watermark rows the contacts of the source have after a bootstrap or a
\* reset that found the source as avail says
CurrentMaxima(avail) == [c \in list_contacts(avail) |-> MaxRowId(c)]

\* the records a get_unread result holds for contact c
RecordsOf(ret, c) == {k \in DOMAIN ret : ret[k].contact_id = c}

\* C3: no step lowers or removes the watermark of a contact of the source
\* that has one
C3_WatermarkNeverDecreases ==
    [][\A c \in DOMAIN unreadRows :
          TextRows(c) # {} =>
              c \in DOMAIN unreadRows' /\ unreadRows'[c] >= unreadRows[c]]_vars

\* C11: a restart leaves the watermark rows as they were, and the get_unread
\* that follows a mark_as_read and a restart runs no bootstrap, leaves the
\* rows in place and reports for the marked contact only a message above the
\* watermark that was persisted
C11_UnreadStateSurvivesRestart ==
    [][/\ last'.op = "restart" => unreadRows' = unreadRows
       /\ (last.op = "restart" /\ last.marked # 0 /\ last'.op = "get_unread") =>
             /\ \A c \in DOMAIN unreadRows : unreadRows'[c] = unreadRows[c]
             /\ last'.avail => last'.sync_called
             /\ \A k \in RecordsOf(last'.ret, last.marked) :
                    last'.ret[k].message_id > unreadRows[last.marked]]_vars

\* a message was marked read, the process restarted, and the next get_unread
\* reported another contact and nothing for the marked one
C11_Witness ==
    /\ last.op = "get_unread" /\ last.ret # <<>>
    /\ prev.op = "restart" /\ prev.marked # 0
    /\ RecordsOf(last.ret, prev.marked) = {}
    /\ \E i \in TextRows(prev.marked) :
          msgs[i].is_from_me = 0 /\ i <= unreadRows[prev.marked]

\* C4: mark_as_read(c, m) leaves the watermark of c at max(previous, m), or
\* at m when c had no row, and leaves every other row as it was
C4_MarkAsReadTakesMax ==
    [][last'.op = "mark_as_read" =>
         LET c == last'.contact_id
             m == last'.message_id
         IN /\ DOMAIN unreadRows' = DOMAIN unreadRows \cup {c}
            /\ unreadRows'[c] = IF c \in DOMAIN unreadRows
                                THEN Max(unreadRows[c], m) ELSE m
            /\ \A x \in DOMAIN unreadRows \ {c} : unreadRows'[x] = unreadRows[x]]_vars

\* a mark_as_read with an id below the watermark has just left it in place
C4_Witness ==
    /\ last.op = "mark_as_read"
    /\ last.message_id < unreadRows[last.contact_id]
    /\ Cardinality(DOMAIN unreadRows) = 2

\* every contact the source lists has a row at its maximum message id
AllAtCurrentMaxima(rows, avail) ==
    \A c \in list_contacts(avail) : c \in DOMAIN rows /\ rows[c] = MaxRowId(c)

\* C5 as stated: get_unread on an empty watermark store returns no unread
\* message and leaves every contact of the source at its maximum message id
C5_BootstrapOnEmptyStore ==
    [][(last'.op = "get_unread" /\ unreadRows = EmptyState) =>
          /\ last'.ret = <<>>
          /\ AllAtCurrentMaxima(unreadRows', last'.avail)]_vars

\* C5 amended: the same, when there is no legacy JSON state to migrate
C5_BootstrapWithoutLegacyState ==
    [][(last'.op = "get_unread" /\ unreadRows = EmptyState /\ ~migrates(unreadRows)) =>
          /\ last'.ret = <<>>
          /\ AllAtCurrentMaxima(unreadRows', last'.avail)]_vars

\* a bootstrap that initialised both contacts, no legacy state involved
C5_Witness ==
    /\ last.op = "get_unread" /\ last.avail /\ ~last.sync_called
    /\ last.ret = <<>>
    /\ ~backupExists /\ ~legacyJson.present
    /\ DOMAIN unreadRows = Chats
    /\ AllAtCurrentMaxima(unreadRows, TRUE)

\* the incoming messages of contact c carry pairwise distinct dates
DistinctDates(c) ==
    \A i, j \in TextRows(c) :
        (i # j /\ msgs[i].is_from_me = 0 /\ msgs[j].is_from_me = 0)
            => msgs[i].date # msgs[j].date

\* C6: a contact with a watermark and an incoming message above it gets
\* exactly one record from get_unread; once that record's message is marked
\* read, the next get_unread, no message having arrived, has none for it
\* (stated for contacts whose incoming messages have distinct dates, where
\* the record does not depend on how the store orders equal dates)
C6_MarkingTheReportedMessageClears ==
    [][/\ (last'.op = "get_unread" /\ last'.avail) =>
             \A c \in DOMAIN unreadRows :
                 UnreadCandidates(c, unreadRows[c]) # {}
                     => Cardinality(RecordsOf(last'.ret, c)) = 1
       /\ (/\ last.op = "mark_as_read" /\ last.reported
           /\ DistinctDates(last.contact_id)
           /\ last'.op = "get_unread") =>
             RecordsOf(last'.ret, last.contact_id) = {}]_vars

\* C7: get_unread returns at most one record per contact, each an incoming
\* message of that contact above the watermark the call loaded; a contact
\* without a loaded watermark gets none
C7_OnlyIncomingAboveWatermark ==
    [][last'.op = "get_unread" =>
         LET loaded == migrate_from_json(unreadRows)
             ret == last'.ret
         IN /\ \A c \in Chats : Cardinality(RecordsOf(ret, c)) <= 1
            /\ \A k \in DOMAIN ret :
                 LET c == ret[k].contact_id
                     i == ret[k].message_id
                 IN /\ c \in DOMAIN loaded
                    /\ i \in RowIds
                    /\ msgs[i].chat = c
                    /\ msgs[i].is_from_me = 0
                    /\ i > loaded[c]]_vars

\* get_unread has reported one contact and none for another whose only
\* messages above its watermark are outgoing
C7_Witness ==
    /\ last.op = "get_unread"
    /\ last.ret # <<>>
    /\ \E c \in DOMAIN unreadRows :
          /\ RecordsOf(last.ret, c) = {}
          /\ {i \in TextRows(c) : i > unreadRows[c]} # {}
          /\ \A i \in TextRows(c) : i > unreadRows[c] => msgs[i].is_from_me = 1

C9_SyncLeavesWatermarks ==
    [][/\ last'.op = "get_unread" =>
             \A c \in DOMAIN unreadRows :
                 c \in DOMAIN unreadRows' /\ unreadRows'[c] = unreadRows[c]
       /\ (\E c \in DOMAIN unreadRows :
               c \notin DOMAIN unreadRows' \/ unreadRows'[c] # unreadRows[c])
             => last'.op \in {"mark_as_read", "reset"}]_vars

\* get_unread has reported a message and the sync has indexed it, and the
\* contact's watermark is still below that message
C9_Witness ==
    /\ last.op = "get_unread"
    /\ \E k \in DOMAIN last.ret :
          /\ unreadRows[last.ret[k].contact_id] < last.ret[k].message_id
          /\ \E id \in DOMAIN rag : rag[id].rowid = last.ret[k].message_id

----------------------------------------------------------------------------
(* Claims on the discussion engine *)

\* the steps of a chat turn, in the order of the code
TurnSteps ==
    <<"user_committed", "user_indexed", "context_retrieved",
      "completion_requested", "assistant_committed", "assistant_indexed">>

IsPrefix(s, t) == Len(s) <= Len(t) /\ s = SubSeq(t, 1, Len(s))

EndsWith(s, t) == Len(t) <= Len(s) /\ t = SubSeq(s, Len(s) - Len(t) + 1, Len(s))

\* a turn has ended: chat_in_discussion returned or raised, the stream of
\* chat_in_discussion_stream was run to its end, raised or was closed
TurnEnded == turn.pc = "closed"

\* the turn ended without raising: the blocking call returned its reply, the
\* stream was run to its end
Successful ==
    /\ TurnEnded
    /\ \/ turn.variant = "blocking" /\ turn.exit = "none"
       \/ turn.variant = "stream" /\ turn.exit = "normal"

\* the rows of the turn that ended: its user turn, then its assistant turn
TurnRows ==
    <<MessageRow(turn.d, "user", turn.msg),
      MessageRow(turn.d, "assistant", Text(0, turn.full_reply))>>

LookupStep ==
    \/ NoTurnInFlight /\ turn'.pc = "closed" /\ turn'.variant = "blocking"
    \/ turn.pc = "open" /\ turn'.pc # "open" /\ turn'.exit # "disconnected"

\* the turn ended with the not-found error of the service
NotFoundRaised ==
    \/ turn.variant = "blocking" /\ turn.exit = "ValueError"
    \/ /\ turn.variant = "stream" /\ turn.exit = "raised"
       /\ turn.events = <<"heartbeat", "error_validation">>

\* C13: a turn on a discussion id that does not exist, blocking or streaming,
\* ends with the not-found error and has no side effect: no message row is
\* written, nothing is indexed, no embedding and no completion is requested
C13_UnknownDiscussionNoSideEffect ==
    [][(LookupStep /\ turn'.d \notin DOMAIN discussions) =>
          /\ NotFoundRaised'
          /\ turn'.steps = <<>>
          /\ turn'.embeds = 0 /\ turn'.completions = 0
          /\ dmessages' = dmessages /\ dindex' = dindex
          /\ discussions' = discussions /\ rag' = rag]_vars

\* a streaming turn on an unknown discussion ended with the not-found error
\* while another discussion has stored messages
C13_Witness ==
    /\ TurnEnded /\ turn.variant = "stream"
    /\ turn.d \notin DOMAIN discussions
    /\ NotFoundRaised
    /\ turn.steps = <<>>
    /\ dmessages # <<>>

\* C14: the discussion context a turn on discussion D retrieves holds only
\* documents that were indexed with discussion id D
C14_ContextOnlyFromOwnDiscussion ==
    turn.pc \in {"streaming", "closed"} => turn.ctx \subseteq {turn.d}

\* the turn got as far as the step
Reached(step) == \E i \in DOMAIN turn.steps : turn.steps[i] = step

\* C15: a failure while either context is retrieved does not abort the turn:
\* every turn that has indexed its user turn goes on, with the context it
\* got or with none, to request the completion
C15_ContextFailureNeverAborts ==
    (TurnEnded /\ Reached("user_indexed")) => Reached("completion_requested")

\* the event stream has the done event, and has it last
DoneIsLast(events) ==
    /\ events # <<>>
    /\ \A i \in DOMAIN events : events[i] = "done" <=> i = Len(events)

\* C16: the streaming response ends with the done event on every exit path
\* (the stream ran to its end, the discussion is unknown, a call failed), and
\* emits no event after it
C16_DoneOnEveryExitPath ==
    (TurnEnded /\ turn.variant = "stream" /\ turn.exit # "disconnected") =>
        DoneIsLast(turn.events)

\* the streaming turn ended because the completion stream raised or the
\* consumer stopped, after at least one delta was passed on
CutAfterChunk ==
    /\ TurnEnded /\ turn.variant = "stream"
    /\ turn.exit \in {"raised", "disconnected"}
    /\ turn.chunks >= 1

\* the row written last is the assistant turn with the text received so far
ReplySavedLast ==
    EndsWith(dmessages, <<MessageRow(turn.d, "assistant", Text(0, turn.full_reply))>>)

\* C17 as stated: when the completion stream fails or the consumer stops
\* after at least one chunk, the assistant turn has been persisted with
\* exactly the text received so far when control returns
C17_CutStreamSavesReply ==
    CutAfterChunk => ReplySavedLast

\* C17 amended: the same, when the text received so far is not empty
C17_CutStreamSavesNonEmptyReply ==
    (CutAfterChunk /\ turn.full_reply > 0) => ReplySavedLast

\* a consumer stopped after two deltas and the two characters are stored
C17_Witness ==
    /\ CutAfterChunk /\ turn.exit = "disconnected"
    /\ turn.full_reply = 2
    /\ ReplySavedLast

\* the blocking turn ended at its completion call, which raised
CompletionFailed ==
    /\ TurnEnded /\ turn.variant = "blocking"
    /\ turn.completions = 1
    /\ turn.steps = SubSeq(TurnSteps, 1, 4)

\* C18: when the completion call of the blocking chat fails, the failure
\* reaches the caller, the user turn stays persisted and no assistant turn
\* is persisted: the row written last is the user turn
C18_CompletionFailureKeepsUserTurn ==
    CompletionFailed =>
        /\ turn.exit # "none"
        /\ EndsWith(dmessages, <<MessageRow(turn.d, "user", turn.msg)>>)

\* a blocking turn failed at its completion after an earlier turn was stored
C18_Witness ==
    /\ CompletionFailed
    /\ turn.exit = "Exception"
    /\ Len(dmessages) >= 2
    /\ EndsWith(dmessages, <<MessageRow(turn.d, "user", turn.msg)>>)

\* the step in which the endpoint takes a chat request
RequestStep == NoTurnInFlight /\ turn'.pc \in {"rejected", "open"}

\* the message is empty once trimmed, or longer than the limit
Invalid(raw) == raw.chars = 0 \/ raw.chars > MaxMessageLength

\* C19: a chat request whose message is empty after trimming or longer than
\* 10000 characters is rejected with no side effect: no event is emitted, no
\* message row is written, nothing is indexed, no embedding and no
\* completion is requested
C19_InvalidMessageRejected ==
    [][(RequestStep /\ Invalid(turn'.raw)) =>
          /\ turn'.pc = "rejected"
          /\ turn'.events = <<>> /\ turn'.steps = <<>>
          /\ turn'.embeds = 0 /\ turn'.completions = 0
          /\ dmessages' = dmessages /\ dindex' = dindex
          /\ discussions' = discussions /\ rag' = rag]_vars

\* a request with a message over the limit was rejected on a discussion that
\* exists and has stored messages
C19_Witness ==
    /\ turn.pc = "rejected"
    /\ turn.raw = Text(0, MaxMessageLength + 1)
    /\ MessagesOf(dmessages, turn.d) # <<>>

\* the step in which delete_discussion removes a discussion that exists
DeleteStep ==
    /\ last'.op = "delete" /\ last'.raised = "none"
    /\ last'.id \in DOMAIN discussions \ DOMAIN discussions'

\* what get_discussion returns for an id that has no discussion row
EmptyShape == [title |-> <<>>, tags |-> <<>>, messages |-> <<>>]

\* C20: deleting a discussion that has N messages removes its N message rows
\* and its discussion row, a get of that id then returns the empty-shape
\* default, and every other discussion and all other message rows are as
\* they were
C20_DeleteCascades ==
    [][DeleteStep =>
          LET id == last'.id
          IN /\ last'.deleted = Len(MessagesOf(dmessages, id))
             /\ Len(dmessages') = Len(dmessages) - last'.deleted
             /\ MessagesOf(dmessages', id) = <<>>
             /\ get_discussion(discussions', dmessages', id) = EmptyShape
             /\ MessagesNotOf(dmessages', id) = MessagesNotOf(dmessages, id)
             /\ DOMAIN discussions' = DOMAIN discussions \ {id}
             /\ \A d \in DOMAIN discussions' :
                    get_discussion(discussions', dmessages', d) =
                        get_discussion(discussions, dmessages, d)]_vars

\* a discussion with two messages was deleted and another discussion still
\* has its message
C20_Witness ==
    /\ last.op = "delete" /\ last.raised = "none"
    /\ last.deleted = 2
    /\ turn = NoTurn
    /\ get_discussion(discussions, dmessages, last.id) = EmptyShape
    /\ \E d \in DOMAIN discussions :
           get_discussion(discussions, dmessages, d).messages # <<>>

\* C21: in every reachable state, chat turns and deletes on one discussion
\* interleaved included, every stored message row references a discussion
\* row that exists
C21_MessagesReferenceExistingDiscussion ==
    \A i \in DOMAIN dmessages : dmessages[i].discussion_id \in DOMAIN discussions

\* the step is a delete of a discussion that exists, and the removal of its
\* index entries failed: they are still in the collection
CleanupFailedStep ==
    /\ last'.op = "delete"
    /\ last'.id \in DOMAIN discussions
    /\ IndexEntriesOf(dindex', last'.id) # {}

\* C22: when the removal of the index entries fails during a delete, the
\* delete still returns its success result, and the discussion row and its
\* message rows are gone
C22_CleanupFailureNotPropagated ==
    [][CleanupFailedStep =>
          /\ last'.raised = "none"
          /\ last'.id \notin DOMAIN discussions'
          /\ MessagesOf(dmessages', last'.id) = <<>>
          /\ dindex' = dindex]_vars

\* a discussion with messages was deleted, the delete returned, and its
\* index entries are still there
C22_Witness ==
    /\ last.op = "delete" /\ last.raised = "none"
    /\ last.deleted >= 1
    /\ turn = NoTurn
    /\ last.id \notin DOMAIN discussions
    /\ MessagesOf(dmessages, last.id) = <<>>
    /\ IndexEntriesOf(dindex, last.id) # {}

----------------------------------------------------------------------------
(* Claims on the analysis cache *)

\* the step is an analyze call on a readable source
AnalyzeStep == last'.op = "analyze" /\ last'.avail

\* C23: an analyze call without force_refresh for a contact that has a
\* cached result returns that result and calls no provider; a call for a
\* contact with no cached result (the state clear_cache leaves) and a call
\* with force_refresh call the providers, and the result they return is the
\* cached entry afterwards; clear_cache leaves no entry
C23_CacheServesUntilCleared ==
    [][/\ AnalyzeStep =>
            LET c == last'.contact_id
            IN IF ~last'.force_refresh /\ c \in DOMAIN cache
               THEN /\ last'.status = 200
                    /\ last'.ret = cache[c]
                    /\ last'.embeds = 0 /\ last'.completions = 0
                    /\ cache' = cache
               ELSE /\ last'.status # 404 => last'.embeds = 1
                    /\ last'.status = 200 =>
                          /\ last'.completions = 1
                          /\ c \in DOMAIN cache' /\ cache'[c] = last'.ret
                          /\ \A o \in DOMAIN cache \ {c} :
                                 o \in DOMAIN cache' /\ cache'[o] = cache[o]
       /\ last'.op = "clear_cache" => cache' = EmptyCache]_vars

\* a call without force_refresh was answered from the cache, while both
\* contacts have a cached result
C23_Witness ==
    /\ last.op = "analyze" /\ last.status = 200
    /\ ~last.force_refresh
    /\ last.embeds = 0 /\ last.completions = 0
    /\ last.ret = cache[last.contact_id]
    /\ Cardinality(DOMAIN cache) = 2

\* C24: whenever a step adds documents to the message index, by whichever
\* path (the incremental sync, the full rebuild, the sync run by get_unread),
\* no cached analysis result is left
C24_SyncClearsCache ==
    [][DOMAIN rag' \ DOMAIN rag # {} => cache' = EmptyCache]_vars

----------------------------------------------------------------------------
(* Claims on the batch loops *)

\* the ids carried by the batches of a run that went in
OkIds(batches) ==
    UNION {batches[k].ids : k \in {j \in DOMAIN batches : batches[j].ok}}

----------------------------------------------------------------------------
(* Claims on the full rebuild *)

\* the deterministic ids of the source's messages whose text is not empty
\* once trimmed
SourceIds ==
    {ImportId(msgs[i].chat, i) : i \in {j \in RowIds : Strip(msgs[j].text) # <<>>}}

C27_ImportReturnsInsertedCount ==
    last.op \in {"import", "clear_and_reimport"} =>
        /\ last.returned # None
        /\ last.returned = last.inserted

----------------------------------------------------------------------------
(* Claims on the reader *)

\* a readable source without threads, listed
NoThreads == [raised |-> "none", threads |-> {}]

\* a thread id the readable source does not hold, fetched
ThreadNotFound == [raised |-> "none", found |-> FALSE, messages |-> <<>>]

\* C28: the reader reports an unavailable source distinctly from absent
\* data: listing an unavailable source does not give what listing a source
\* without threads gives, and fetching from an unavailable source does not
\* give what fetching an unknown thread id gives
C28_UnavailableSourceIsDistinct ==
    /\ last.op = "list_contacts" =>
          IF last.avail
          THEN list_contacts(TRUE) = {} => last.out = NoThreads
          ELSE last.out # NoThreads
    /\ last.op = "get_conversation" =>
          IF last.avail
          THEN Conversation(last.chat_id) = {} => last.out = ThreadNotFound
          ELSE last.out # ThreadNotFound

----------------------------------------------------------------------------
(* Claims on concurrent calls of the unread tracker *)

\* thread t ends its get_unread in this step
CommitStep(t) == calls[t].pc = "commit" /\ calls'[t].pc = "idle"

\* C29: a get_unread call that found the watermark store empty completes
\* without error whatever a concurrent call does, leaves a row for every
\* contact it initialised, and leaves no row lower than a concurrent
\* mark_as_read has written it
C29_ConcurrentInitIsSafe ==
    [][\A t \in Threads : CommitStep(t) =>
          /\ last'.raised = "none"
          /\ DOMAIN calls[t].state \subseteq DOMAIN unreadRows'
          /\ last.op = "mark_as_read" =>
                \A c \in DOMAIN unreadRows : unreadRows'[c] >= unreadRows[c]]_vars

----------------------------------------------------------------------------
(* Claims on the deterministic id *)

\* two texts agree on their first PrefixLen characters
SameFirstChars(s, t) ==
    \A i \in 1 .. PrefixLen :
        /\ i <= Len(s) <=> i <= Len(t)
        /\ i <= Len(s) => s[i] = t[i]

----------------------------------------------------------------------------
(* Claims on the prompt of a chat turn *)

\* C31 as stated: a context over its budget becomes the ellipsis marker
\* followed by as many of its last characters as the budget, and a context
\* within the budget is unchanged
C31_TruncationKeepsBudgetTail ==
    last.op = "prompt" =>
        IF last.discussion <= MAX_DISCUSSION_CONTEXT_LENGTH
        THEN last.out.truncated_discussion = Whole("discussion", last.discussion)
        ELSE last.out.truncated_discussion =
                <<[src |-> "ellipsis", from |-> 1, to |-> 3],
                  [src |-> "discussion",
                   from |-> last.discussion - MAX_DISCUSSION_CONTEXT_LENGTH + 1,
                   to |-> last.discussion]>>

\* C31: a context over its budget becomes the ellipsis marker followed by
\* its last characters, three fewer than the budget, so that the result is
\* exactly as long as the budget; a context within the budget is unchanged
C31_TruncationKeepsTailWithinBudget ==
    last.op = "prompt" =>
        IF last.discussion <= MAX_DISCUSSION_CONTEXT_LENGTH
        THEN last.out.truncated_discussion = Whole("discussion", last.discussion)
        ELSE /\ last.out.truncated_discussion =
                   <<[src |-> "ellipsis", from |-> 1, to |-> 3],
                     [src |-> "discussion",
                      from |-> last.discussion - MAX_DISCUSSION_CONTEXT_LENGTH + 4,
                      to |-> last.discussion]>>
             /\ TextLength(last.out.truncated_discussion)
                   = MAX_DISCUSSION_CONTEXT_LENGTH

\* a discussion context of 4000 characters has been truncated: what is left
\* of it starts at its character 1004
C31_Witness ==
    /\ last.op = "prompt"
    /\ last.discussion = 4000
    /\ Len(last.out.truncated_discussion) = 2
    /\ last.out.truncated_discussion[2].from = 1004
    /\ last.out.truncated_discussion[2].to = 4000

\* the characters of text that come from the text src
RECURSIVE CharsFrom(_, _)
CharsFrom(text, src) ==
    IF text = <<>> THEN 0
    ELSE (IF Head(text).src = src THEN Head(text).to - Head(text).from + 1 ELSE 0)
             + CharsFrom(Tail(text), src)

\* C32: whatever the lengths of the retrieved contexts, the discussion
\* context in the prompt is at most 3000 characters, the chat-history
\* context at most 5000, the combined block with its headers at most 8000,
\* and the whole user message follows the combined block unmodified
C32_PromptWithinBudgets ==
    last.op = "prompt" =>
        /\ TextLength(last.out.truncated_discussion) <= 3000
        /\ TextLength(last.out.truncated_history) <= 5000
        /\ TextLength(last.out.combined_context) <= 8000
        /\ CharsFrom(last.out.user_content, "discussion") <= 3000
        /\ CharsFrom(last.out.user_content, "history") <= 5000
        /\ last.out.user_content[Len(last.out.user_content)]
              = [src |-> "user", from |-> 1, to |-> last.message]
        /\ CharsFrom(last.out.user_content, "user") = last.message
        /\ TextLength(last.out.user_content) <= 8000 + 8 + last.message
        /\ last.out.combined_context # <<>> =>
              SubSeq(last.out.user_content, 1, Len(last.out.combined_context))
                  = last.out.combined_context

\* both contexts were over their budgets and the combined block was cut to
\* 8000 characters
C32_Witness ==
    /\ last.op = "prompt"
    /\ last.discussion > 3000
    /\ last.history > 5000
    /\ TextLength(last.out.truncated_discussion) = 3000
    /\ TextLength(last.out.truncated_history) = 5000
    /\ TextLength(last.out.combined_context) = 8000
    /\ last.out.combined_context[1].src = "ellipsis"

----------------------------------------------------------------------------
(* Claims on the periodic unread check *)

\* C33: the periodic check never stops because of a failing tick: after an
\* exception of get_unread is caught the task sleeps and checks again, so
\* get_unread is invoked again and again for ever
C33_PeriodicCheckNeverStops ==
    /\ [](task.pc = "caught" => <>(task.pc = "due"))
    /\ []<>(task.pc = "due")
    /\ []<>(task.pc # "due")

\* get_unread has returned in a tick that came after a failed one
C33_Witness ==
    /\ task.survived
    /\ task.pc = "sleeping"
    /\ task.outcome = "returned"
    /\ last.op = "get_unread"

----------------------------------------------------------------------------
(* Claims on the list of unread messages *)

\* C34: the list get_unread returns is sorted by message timestamp, newest
\* first, whichever contacts have unread messages and in whatever order
\* they were scanned
C34_UnreadSortedNewestFirst ==
    last.op = "get_unread" =>
        \A i, j \in DOMAIN last.ret :
            i < j => last.ret[i].timestamp >= last.ret[j].timestamp

\* get_unread has returned the unread messages of two contacts, of
\* different timestamps, the newer one first
C34_Witness ==
    /\ last.op = "get_unread"
    /\ Len(last.ret) = 2
    /\ last.ret[1].contact_id # last.ret[2].contact_id
    /\ last.ret[1].timestamp > last.ret[2].timestamp

----------------------------------------------------------------------------
(* Claims on the stored tags *)

\* C35: tags round-trip through storage: after create(title, tags), get
\* returns the same title and the same ordered tag list, and list reports
\* the discussion with the same tags
C35_TagsRoundTrip ==
    last.op = "start" =>
        /\ get_discussion(discussions, dmessages, last.id).title = last.title
        /\ get_discussion(discussions, dmessages, last.id).tags = last.tags
        /\ [id |-> last.id, title |-> last.title, tags |-> last.tags]
              \in list_discussions(discussions)

----------------------------------------------------------------------------
(* Claims on what the message index holds *)

\* C36: after any sequence of importer runs and unread-triggered syncs, the
\* message index holds no document built from a message whose text is empty
\* once trimmed
C36_NoBlankMessageIndexed ==
    \A id \in DOMAIN rag :
        /\ rag[id].doc.text # <<>>
        /\ Strip(msgs[rag[id].rowid].text) # <<>>

\* message i has just appeared in the source, with a text that is not empty
\* once trimmed, and the watermark store had been initialised
Appeared(i) ==
    /\ last.op = "new_message"
    /\ Len(msgs) = i
    /\ Strip(msgs[i].text) # <<>>
    /\ unreadRows # EmptyState

\* the index holds a document built from message i
Indexed(i) == \E id \in DOMAIN rag : rag[id].rowid = i

\* C37: while the periodic check keeps ticking and embedding and insertion
\* succeed again and again, every non-empty message that appears in the
\* source after the watermark store was initialised is eventually in the
\* message index, without an importer run and whatever mark_as_read calls
\* happen in between
C37_NewMessagesEventuallyIndexed ==
    \A i \in 1 .. MaxMsgs : [](Appeared(i) => <>Indexed(i))

----------------------------------------------------------------------------
(* Claims on deletes and streaming turns that overlap *)

\* the discussions whose delete has returned: the id was given out by
\* start_discussion and has no discussion row any more
DeletedDiscussions == uuids \ DOMAIN discussions

\* C38: once delete(D) has returned with its index cleanup done (no entry
\* tagged D is left) and every chat turn in flight on D has finished, the
\* discussion index holds no entry tagged D
C38_NoIndexEntryAfterDeleteAndTurns ==
    [][\A d \in DeletedDiscussions :
          (IndexEntriesOf(dindex, d) = {} /\ NoTurnInFlight') =>
              IndexEntriesOf(dindex', d) = {}]_vars

\* the step in which the completion stream of a streaming turn ends or
\* raises before it produced any delta
EndsBeforeAnyChunk ==
    /\ turn.pc = "streaming" /\ turn.chunks = 0
    /\ turn'.pc = "closed" /\ turn'.exit \in {"normal", "raised"}

\* the stored messages of the discussion of the turn end with its user turn
UserTurnLast(rows) ==
    EndsWith(MessagesOf(rows, turn.d), <<MessageRow(turn.d, "user", turn.msg)>>)

----------------------------------------------------------------------------
(* Claims on the stores the importer and the sync leave alone *)

\* the relational rows and the collection "discussions" are as they were
ChatStoresUnchanged ==
    /\ discussions' = discussions
    /\ dmessages' = dmessages
    /\ dindex' = dindex

\* the watermark rows are the ones the scan of get_unread_messages saved
WatermarksAsScanned ==
    LET loaded == migrate_from_json(unreadRows)
    IN \E order \in Orders(list_contacts(TRUE)), pick \in PickChoices(loaded) :
           unreadRows' = scan_contacts(order, 1, loaded, pick).state

\* C40: an import run, full rebuild or incremental, and the sync that
\* get_unread triggers change only the message index: the watermark rows
\* stay as they were (after a sync, as the scan before it saved them), and
\* the discussion rows, the discussion message rows and the entries of the
\* discussion index are unchanged
C40_ImportAndSyncChangeOnlyMessageIndex ==
    [][/\ last'.op \in {"import", "clear_and_reimport"} =>
             unreadRows' = unreadRows /\ ChatStoresUnchanged
       /\ (last'.op = "get_unread" /\ last'.sync_called) =>
             WatermarksAsScanned /\ ChatStoresUnchanged]_vars

\* a rebuild emptied and refilled the message index while watermark rows,
\* a discussion, its stored messages and its index entries exist
C40_Witness ==
    /\ last.op = "clear_and_reimport" /\ last.deleted_count > 0
    /\ rag # EmptyIndex
    /\ unreadRows # EmptyState
    /\ DOMAIN discussions = {1}
    /\ Len(dmessages) = 2
    /\ BagCardinality(dindex) = 2

====
